---- MODULE Spec2Model ----
(***************************************************************************)
(* ByteTrack multi-object tracker (cjm-byte-track): BYTETracker, STrack,   *)
(* BaseTrack, KalmanFilter and the matching helpers, as a state machine.   *)
(*                                                                         *)
(* Numbers.  Scores are in hundredths (0.25 is 25).  IoU costs are in      *)
(* units of 1e-4 (CostScale), the resolution the code itself uses when it  *)
(* replaces a forbidden cost by thresh + 1e-4.  Box coordinates are        *)
(* integers; the boxes the frames offer are BoxW x BoxH with BoxH dividing *)
(* BoxW and both even, so every division of the box conversions is exact.  *)
(* The floating-point numbers are the integers of FloatBits significant    *)
(* bits: the sums and differences of tlwh_to_tlbr and tlbr_to_tlwh are     *)
(* rounded to them (fl); the coordinates of the tracker runs are below     *)
(* 2^FloatBits, where no sum is rounded.                                   *)
(* The quotient 0.0 / 0.0 of the IoU of two boxes without area is the      *)
(* value NaN, which every comparison of the matching code treats as the    *)
(* floating-point numbers do.                                              *)
(*                                                                         *)
(* Kalman filter.  The mean is the 8-vector of the code.  The covariance   *)
(* is real-valued and is not carried; the correction step is taken with    *)
(* the gain K = [I; 0] (the measurement replaces the projected position,   *)
(* the velocities keep their value), see KalmanFilter_update.              *)
(*                                                                         *)
(* Objects.  Python lists hold references: heap is the sequence of all     *)
(* STrack objects that were ever activated, and the tracker lists hold     *)
(* indices into it.                                                        *)
(***************************************************************************)
EXTENDS Integers, Sequences, FiniteSets, TLC

VARIABLES
    count,   \* BaseTrack._count, the class-level (process-wide) id counter
    heap,    \* every activated STrack object, by allocation order
    tr,      \* the BYTETracker instances: tr[k] is tracker k
    last,    \* the operation that produced this state
    fn       \* a direct call of a module-level function: its arguments, its result

vars == <<count, heap, tr, last, fn>>

----------------------------------------------------------------------------
(* Bounds of the model *)

MaxFrame == 6        \* update() calls of the tracker (Spec)
MaxDets == 2         \* rows of output_results per frame
NumPos == 2          \* horizontal positions a detection box can take (Spec)
TrackBuffer == 2     \* the track_buffer the trackers are constructed with
MaxFrameMulti == 3   \* update() calls of the first tracker (SpecMulti)
MaxFrameOther == 1   \* update() calls of the second tracker (SpecMulti)
MaxFrameEdge == 3    \* update() calls of the tracker (SpecEdge)
MaxFnList == 2       \* length of a list passed to a function (SpecFn)
MaxFnFrame == 3      \* frame number of the tracks passed to a function (SpecFn)
MaxAssignDim == 2    \* rows and columns of a cost matrix (SpecAssign)
MaxFrameErr == 4     \* update() calls of the tracker (SpecErr)
MaxFrameCtor == 2    \* update() calls of a tracker just constructed (SpecCtor)
MaxFramePair == 3    \* update() calls of each of the two trackers (SpecPair)
MaxIouBoxes == 2     \* boxes in a list passed to the IoU kernel (SpecIou)
FloatBits == 4       \* significant bits of a floating-point number

(* Program constants *)

track_thresh == 25
match_thresh == 8000
frame_rate == 30
CostScale == 10000

\* width and height of the boxes the frames offer
BoxSize == <<4, 2>>
BoxW == BoxSize[1]
BoxH == BoxSize[2]

Scores == {15, 90}
Trackers == {1, 2}

----------------------------------------------------------------------------
(* Generic helpers *)

Min2(a, b) == IF a <= b THEN a ELSE b
Max2(a, b) == IF a >= b THEN a ELSE b

\* floating-point rounding of an integer: to FloatBits significant bits, to
\* the nearest, ties to the even one.  ulp_of(x, u) is the spacing of the
\* floating-point numbers around x >= 0.
RECURSIVE ulp_of(_, _)
ulp_of(x, u) == IF x < (2 ^ FloatBits) * u THEN u ELSE ulp_of(x, 2 * u)

fl_abs(x) ==
    LET u == ulp_of(x, 1)
        q == x \div u
        r == x % u
    IN IF 2 * r < u THEN q * u
       ELSE IF 2 * r > u THEN (q + 1) * u
       ELSE IF q % 2 = 0 THEN q * u ELSE (q + 1) * u

fl(x) == IF x < 0 THEN -fl_abs(-x) ELSE fl_abs(x)

RECURSIVE SetToSortedSeq(_)
SetToSortedSeq(S) ==
    IF S = {} THEN <<>>
    ELSE LET m == CHOOSE x \in S : \A y \in S : x <= y
         IN <<m>> \o SetToSortedSeq(S \ {m})

\* pairs <<row, column>> in increasing row order (rows are distinct)
RECURSIVE SetToSortedSeq2(_)
SetToSortedSeq2(S) ==
    IF S = {} THEN <<>>
    ELSE LET p == CHOOSE x \in S : \A y \in S : x[1] <= y[1]
         IN <<p>> \o SetToSortedSeq2(S \ {p})

RECURSIVE SumOver(_, _)
SumOver(f, S) ==
    IF S = {} THEN 0
    ELSE LET x == CHOOSE y \in S : TRUE
         IN f[x] + SumOver(f, S \ {x})

Range(s) == {s[i] : i \in 1..Len(s)}

----------------------------------------------------------------------------
(* BaseTrack *)

\* a next_id that returns the counter before incrementing it
next_id_stale(c) == c

\* BaseTrack.next_id: the id it returns, which is also the new value of _count
next_id_value(c) == c + 1

\* a mark_lost that also restarts the count of the track's matches
mark_lost_reset(t) == [t EXCEPT !.state = "Lost", !.tracklet_len = 0]

\* a mark_lost that leaves the state as it is
mark_lost_not(t) == t

mark_lost(t) == [t EXCEPT !.state = "Lost"]

\* a mark_removed that marks the track Lost
mark_removed_as_lost(t) == [t EXCEPT !.state = "Lost"]

mark_removed(t) == [t EXCEPT !.state = "Removed"]

end_frame(t) == t.frame_id

----------------------------------------------------------------------------
(* STrack: box conversions *)

tlwh_to_xyah(tlwh) ==
    <<tlwh[1] + tlwh[3] \div 2, tlwh[2] + tlwh[4] \div 2, tlwh[3] \div tlwh[4], tlwh[4]>>

\* ret[2:] += ret[:2], in floating point
tlwh_to_tlbr(tlwh) ==
    <<tlwh[1], tlwh[2], fl(tlwh[3] + tlwh[1]), fl(tlwh[4] + tlwh[2])>>

\* a tlbr_to_tlwh that returns its argument
tlbr_to_tlwh_same(tlbr) == tlbr

\* ret[2:] -= ret[:2], in floating point
tlbr_to_tlwh(tlbr) ==
    <<tlbr[1], tlbr[2], fl(tlbr[3] - tlbr[1]), fl(tlbr[4] - tlbr[2])>>

\* the tlwh property of an activated track (mean is set)
STrack_tlwh(t) ==
    LET w == t.mean[3] * t.mean[4]
    IN <<t.mean[1] - w \div 2, t.mean[2] - t.mean[4] \div 2, w, t.mean[4]>>

STrack_tlbr(t) == tlwh_to_tlbr(STrack_tlwh(t))

\* a detection is an STrack that was constructed and not activated: mean is None
STrack_init(tlwh, score) == [tlwh0 |-> tlwh, score |-> score]

det_tlbr(d) == tlwh_to_tlbr(d.tlwh0)

----------------------------------------------------------------------------
(* KalmanFilter (means only) *)

KalmanFilter_initiate(measurement) == measurement \o <<0, 0, 0, 0>>

\* mean @ motion_mat.T, motion_mat = [[I, dt I], [0, I]], dt = 1
KalmanFilter_predict(mean) ==
    <<mean[1] + mean[5], mean[2] + mean[6], mean[3] + mean[7], mean[4] + mean[8],
      mean[5], mean[6], mean[7], mean[8]>>

\* a multi_predict that does not advance the height
KalmanFilter_multi_predict_frozen_h(means) ==
    [i \in DOMAIN means |->
        <<means[i][1] + means[i][5], means[i][2] + means[i][6],
          means[i][3] + means[i][7], means[i][4],
          means[i][5], means[i][6], means[i][7], means[i][8]>>]

\* the vectorized predict: the same product, row by row
KalmanFilter_multi_predict(means) ==
    [i \in DOMAIN means |->
        <<means[i][1] + means[i][5], means[i][2] + means[i][6],
          means[i][3] + means[i][7], means[i][4] + means[i][8],
          means[i][5], means[i][6], means[i][7], means[i][8]>>]

KalmanFilter_project(mean) == <<mean[1], mean[2], mean[3], mean[4]>>

\* new_mean = mean + (measurement - projected_mean) @ kalman_gain.T, with the
\* gain taken as [I; 0]
KalmanFilter_update(mean, measurement) ==
    LET p == KalmanFilter_project(mean)
        innovation == [i \in 1..4 |-> measurement[i] - p[i]]
    IN <<mean[1] + innovation[1], mean[2] + innovation[2],
         mean[3] + innovation[3], mean[4] + innovation[4],
         mean[5], mean[6], mean[7], mean[8]>>

\* an update that adds the measurement, not the innovation, times the gain
KalmanFilter_update_gain_raw(mean, measurement, kalman_gain) ==
    [i \in 1..8 |->
        mean[i] + SumOver([j \in 1..4 |-> measurement[j] * kalman_gain[<<i, j>>]], 1..4)]

\* KalmanFilter.update for a given Kalman gain (an 8 x 4 matrix; the code
\* computes it from the covariance):
\* new_mean = mean + (measurement - projected_mean) @ kalman_gain.T
KalmanFilter_update_gain(mean, measurement, kalman_gain) ==
    LET p == KalmanFilter_project(mean)
        innovation == [j \in 1..4 |-> measurement[j] - p[j]]
    IN [i \in 1..8 |->
           mean[i] + SumOver([j \in 1..4 |-> innovation[j] * kalman_gain[<<i, j>>]], 1..4)]

(* The covariance of the prediction step, exactly.  A covariance is an 8 x 8
   matrix [<<i, j>> |-> entry].  Units: x, y, h and their velocities are in
   1/160, a and its velocity in 1e-5, so that the standard deviations of
   _create_std are integers (h / 20 is 8 h, h / 160 is h, 1e-2 is 1000 and
   1e-5 is 1); the motion matrix adds a velocity to its own coordinate, so it
   is the same matrix in these units. *)

Idx8 == (1..8) \X (1..8)

create_std(mean) ==
    <<8 * mean[4], 8 * mean[4], 1000, 8 * mean[4], mean[4], mean[4], 1, mean[4]>>

\* np.diag(v)
diag(v) == [p \in Idx8 |-> IF p[1] = p[2] THEN v[p[1]] ELSE 0]

\* the columns of row i of _motion_mat that hold a 1 (dt = 1)
motion_cols(i) == IF i <= 4 THEN {i, i + 4} ELSE {i}

\* the covariance of KalmanFilter.initiate
KalmanFilter_initiate_cov(measurement) ==
    LET std == create_std(KalmanFilter_initiate(measurement))
    IN diag([i \in 1..8 |-> std[i] * std[i]])

\* the covariance of KalmanFilter.predict:
\* _motion_mat @ covariance @ _motion_mat.T + motion_cov
KalmanFilter_predict_cov(mean, covariance) ==
    LET std == create_std(mean)
        motion_cov == diag([i \in 1..8 |-> std[i] * std[i]])
    IN [p \in Idx8 |->
           SumOver(covariance, motion_cols(p[1]) \X motion_cols(p[2])) + motion_cov[p]]

\* the covariances of KalmanFilter.multi_predict: one motion_cov per row of
\* mean, the product broadcast over the covariances
KalmanFilter_multi_predict_cov(means, covariances) ==
    LET stds == [i \in DOMAIN means |-> create_std(means[i])]
        motion_cov == [i \in DOMAIN means |-> diag([j \in 1..8 |-> stds[i][j] * stds[i][j]])]
    IN [i \in DOMAIN means |->
           [p \in Idx8 |->
               SumOver(covariances[i], motion_cols(p[1]) \X motion_cols(p[2]))
                 + motion_cov[i][p]]]

----------------------------------------------------------------------------
(* STrack: lifecycle *)

\* a predict that leaves the height velocity of every track alone
STrack_predict_keep_vh(t) == [t EXCEPT !.mean = KalmanFilter_predict(t.mean)]

\* STrack.predict
STrack_predict(t) ==
    LET mean_state == IF t.state # "Tracked" THEN [t.mean EXCEPT ![8] = 0] ELSE t.mean
    IN [t EXCEPT !.mean = KalmanFilter_predict(mean_state)]

\* STrack.multi_predict on the objects of stracks (a sequence of heap indices)
STrack_multi_predict(h, stracks) ==
    IF stracks = <<>> THEN h
    ELSE LET multi_means ==
                 [i \in 1..Len(stracks) |->
                     IF h[stracks[i]].state # "Tracked"
                     THEN [h[stracks[i]].mean EXCEPT ![8] = 0]
                     ELSE h[stracks[i]].mean]
             predicted == KalmanFilter_multi_predict(multi_means)
             last_index(o) == CHOOSE i \in 1..Len(stracks) :
                                 stracks[i] = o /\ \A j \in 1..Len(stracks) : stracks[j] = o => j <= i
         IN [o \in DOMAIN h |->
                IF o \in Range(stracks)
                THEN [h[o] EXCEPT !.mean = predicted[last_index(o)]]
                ELSE h[o]]

\* the covariance STrack.predict stores for a track of covariance covariance
STrack_predict_cov(t, covariance) ==
    LET mean_state == IF t.state # "Tracked" THEN [t.mean EXCEPT ![8] = 0] ELSE t.mean
    IN KalmanFilter_predict_cov(mean_state, covariance)

\* the covariances STrack.multi_predict stores; covs[o] is the covariance of
\* object o
STrack_multi_predict_cov(h, covs, stracks) ==
    IF stracks = <<>> THEN covs
    ELSE LET multi_means ==
                 [i \in 1..Len(stracks) |->
                     IF h[stracks[i]].state # "Tracked"
                     THEN [h[stracks[i]].mean EXCEPT ![8] = 0]
                     ELSE h[stracks[i]].mean]
             multi_covariances == [i \in 1..Len(stracks) |-> covs[stracks[i]]]
             predicted == KalmanFilter_multi_predict_cov(multi_means, multi_covariances)
             last_index(o) == CHOOSE i \in 1..Len(stracks) :
                                 stracks[i] = o /\ \A j \in 1..Len(stracks) : stracks[j] = o => j <= i
         IN [o \in DOMAIN covs |->
                IF o \in Range(stracks) THEN predicted[last_index(o)] ELSE covs[o]]

\* an activate that marks every new track activated, whatever the frame
STrack_activate_eager(d, frame_id, c, owner) ==
    [track_id |-> next_id_value(c),
     mean |-> KalmanFilter_initiate(tlwh_to_xyah(d.tlwh0)),
     tracklet_len |-> 0,
     state |-> "Tracked",
     is_activated |-> TRUE,
     frame_id |-> frame_id,
     start_frame |-> frame_id,
     score |-> d.score,
     owner |-> owner]

\* STrack.activate of detection d: the new object
STrack_activate(d, frame_id, c, owner) ==
    [track_id |-> next_id_value(c),
     mean |-> KalmanFilter_initiate(tlwh_to_xyah(d.tlwh0)),
     tracklet_len |-> 0,
     state |-> "Tracked",
     is_activated |-> (frame_id = 1),
     frame_id |-> frame_id,
     start_frame |-> frame_id,
     score |-> d.score,
     owner |-> owner]

\* an _update_track that forgets to set is_activated
STrack_update_track_unconfirmed(t, new_track, frame_id) ==
    [t EXCEPT !.frame_id = frame_id,
              !.tracklet_len = t.tracklet_len + 1,
              !.mean = KalmanFilter_update(t.mean, tlwh_to_xyah(new_track.tlwh0)),
              !.state = "Tracked",
              !.score = new_track.score]

\* an _update_track that starts the track anew: start_frame is this frame
STrack_update_track_restart(t, new_track, frame_id) ==
    [t EXCEPT !.frame_id = frame_id,
              !.start_frame = frame_id,
              !.tracklet_len = t.tracklet_len + 1,
              !.mean = KalmanFilter_update(t.mean, tlwh_to_xyah(new_track.tlwh0)),
              !.state = "Tracked",
              !.is_activated = TRUE,
              !.score = new_track.score]

\* an _update_track that keeps the old score
STrack_update_track_keep_score(t, new_track, frame_id) ==
    [t EXCEPT !.frame_id = frame_id,
              !.tracklet_len = t.tracklet_len + 1,
              !.mean = KalmanFilter_update(t.mean, tlwh_to_xyah(new_track.tlwh0)),
              !.state = "Tracked",
              !.is_activated = TRUE]

\* STrack._update_track with new_id = False (update and re_activate)
STrack_update_track(t, new_track, frame_id) ==
    [t EXCEPT !.frame_id = frame_id,
              !.tracklet_len = t.tracklet_len + 1,
              !.mean = KalmanFilter_update(t.mean, tlwh_to_xyah(new_track.tlwh0)),
              !.state = "Tracked",
              !.is_activated = TRUE,
              !.score = new_track.score]

STrack_update(t, new_track, frame_id) == STrack_update_track(t, new_track, frame_id)

STrack_re_activate(t, new_track, frame_id) == STrack_update_track(t, new_track, frame_id)

----------------------------------------------------------------------------
(* matching *)

\* the value of 0.0 / 0.0: it is no number, compares False with everything
\* (NaN > x, NaN < x and NaN <= x are all False) and 1 - NaN is NaN again
NaN == -1

\* one entry of box_iou_batch, in units of 1/CostScale.  The areas of the
\* boxes (x2 >= x1, y2 >= y1) are not negative and the intersection is not
\* larger than either, so a union of zero comes with an intersection of zero
\* and the quotient is 0.0 / 0.0.
box_iou(bt, bd) ==
    LET area_true == (bt[3] - bt[1]) * (bt[4] - bt[2])
        area_detection == (bd[3] - bd[1]) * (bd[4] - bd[2])
        top_left == <<Max2(bt[1], bd[1]), Max2(bt[2], bd[2])>>
        bottom_right == <<Min2(bt[3], bd[3]), Min2(bt[4], bd[4])>>
        area_inter == Max2(bottom_right[1] - top_left[1], 0)
                        * Max2(bottom_right[2] - top_left[2], 0)
        area_union == area_true + area_detection - area_inter
    IN IF area_union = 0 THEN NaN ELSE (area_inter * CostScale) \div area_union

\* a matrix is [n, m, c]: n rows, m columns, c[<<i, j>>] its entries
box_iou_batch(boxes_true, boxes_detection) ==
    [n |-> Len(boxes_true), m |-> Len(boxes_detection),
     c |-> [p \in (1..Len(boxes_true)) \X (1..Len(boxes_detection)) |->
               box_iou(boxes_true[p[1]], boxes_detection[p[2]])]]

ious(atlbrs, btlbrs) ==
    IF atlbrs = <<>> \/ btlbrs = <<>>
    THEN [n |-> Len(atlbrs), m |-> Len(btlbrs),
          c |-> [p \in (1..Len(atlbrs)) \X (1..Len(btlbrs)) |-> 0]]
    ELSE box_iou_batch(atlbrs, btlbrs)

\* iou_distance on the boxes extracted from the two lists
iou_distance(atlbrs, btlbrs) ==
    LET i == ious(atlbrs, btlbrs)
    IN [i EXCEPT !.c = [p \in DOMAIN i.c |->
                            IF i.c[p] = NaN THEN NaN ELSE CostScale - i.c[p]]]

\* an indices_to_matches without the mask: every index pair is a match
indices_to_matches_all(cost_matrix, indices, thresh) ==
    [matches |-> SetToSortedSeq2(indices),
     u_a |-> SetToSortedSeq((1..cost_matrix.n) \ {p[1] : p \in indices}),
     u_b |-> SetToSortedSeq((1..cost_matrix.m) \ {p[2] : p \in indices})]

\* an indices_to_matches that reports every row unmatched, the matched ones too
indices_to_matches_rows_left(cost_matrix, indices, thresh) ==
    LET matches == {p \in indices : cost_matrix.c[p] # NaN /\ cost_matrix.c[p] <= thresh}
    IN [matches |-> SetToSortedSeq2(matches),
        u_a |-> SetToSortedSeq(1..cost_matrix.n),
        u_b |-> SetToSortedSeq((1..cost_matrix.m) \ {p[2] : p \in matches})]

indices_to_matches(cost_matrix, indices, thresh) ==
    LET matches == {p \in indices : cost_matrix.c[p] # NaN /\ cost_matrix.c[p] <= thresh}
    IN [matches |-> SetToSortedSeq2(matches),
        u_a |-> SetToSortedSeq((1..cost_matrix.n) \ {p[1] : p \in matches}),
        u_b |-> SetToSortedSeq((1..cost_matrix.m) \ {p[2] : p \in matches})]

Injections(A, B) == {f \in [A -> B] : \A x, y \in A : x # y => f[x] # f[y]}

\* the complete assignments of a rectangular n x m problem: min(n, m) pairs
Assignments(n, m) ==
    IF n <= m
    THEN {{<<i, f[i]>> : i \in 1..n} : f \in Injections(1..n, 1..m)}
    ELSE {{<<g[j], j>> : j \in 1..m} : g \in Injections(1..m, 1..n)}

\* scipy.optimize.linear_sum_assignment raises ValueError ("matrix contains
\* invalid numeric entries") on a matrix that holds a NaN
linear_sum_assignment_raises(cost_matrix) ==
    \E p \in DOMAIN cost_matrix.c : cost_matrix.c[p] = NaN

\* a solver that returns any complete assignment, optimal or not
linear_sum_assignment_any(cost_matrix) ==
    IF linear_sum_assignment_raises(cost_matrix) THEN {}
    ELSE Assignments(cost_matrix.n, cost_matrix.m)

\* scipy.optimize.linear_sum_assignment: every assignment of minimal total
\* cost (which of several optimal ones the solver returns is its own choice);
\* no assignment is returned when it raises
linear_sum_assignment(cost_matrix) ==
    IF linear_sum_assignment_raises(cost_matrix) THEN {}
    ELSE LET all == Assignments(cost_matrix.n, cost_matrix.m)
         IN {A \in all : \A B \in all :
                SumOver(cost_matrix.c, A) <= SumOver(cost_matrix.c, B)}

\* np.where(cost_matrix > thresh, thresh + 1e-4, cost_matrix)
clip_costs(cost_matrix, thresh) ==
    [cost_matrix EXCEPT !.c =
        [p \in DOMAIN cost_matrix.c |->
            IF cost_matrix.c[p] # NaN /\ cost_matrix.c[p] > thresh THEN thresh + 1
            ELSE cost_matrix.c[p]]]

\* linear_assignment raises: the matrix is not empty and the solver raises
linear_assignment_raises(cost_matrix, thresh) ==
    /\ cost_matrix.n * cost_matrix.m # 0
    /\ linear_sum_assignment_raises(clip_costs(cost_matrix, thresh))

\* the set of results linear_assignment can return (none when it raises)
linear_assignment(cost_matrix, thresh) ==
    IF cost_matrix.n * cost_matrix.m = 0
    THEN {[matches |-> <<>>,
           u_a |-> SetToSortedSeq(1..cost_matrix.n),
           u_b |-> SetToSortedSeq(1..cost_matrix.m)]}
    ELSE LET clipped == clip_costs(cost_matrix, thresh)
         IN {indices_to_matches(clipped, A, thresh) : A \in linear_sum_assignment(clipped)}

\* np.max of one row of an IoU matrix (m >= 1 columns): NaN if the row holds one
row_max(iou, i) ==
    IF \E j \in 1..iou.m : iou.c[<<i, j>>] = NaN THEN NaN
    ELSE CHOOSE x \in {iou.c[<<i, j>>] : j \in 1..iou.m} :
             \A j \in 1..iou.m : iou.c[<<i, j>>] <= x

\* np.argmax of one row: the first column that holds the maximum (the first
\* NaN if the row holds one)
row_argmax(iou, i) ==
    CHOOSE j \in 1..iou.m :
        /\ iou.c[<<i, j>>] = row_max(iou, i)
        /\ \A k \in 1..(j - 1) : iou.c[<<i, k>>] # row_max(iou, i)

\* the loop of match_detections_with_tracks over the tracks from idx on
\* (valid_indices = max_iou_values != 0, and NaN != 0 is True)
RECURSIVE assign_track_ids(_, _, _, _)
assign_track_ids(iou, track_ids, tracks, idx) ==
    IF idx > Len(tracks) THEN track_ids
    ELSE IF row_max(iou, idx) # 0
         THEN assign_track_ids(iou,
                  [track_ids EXCEPT ![row_argmax(iou, idx)] = tracks[idx].track_id],
                  tracks, idx + 1)
         ELSE assign_track_ids(iou, track_ids, tracks, idx + 1)

\* match_detections_with_tracks raises: without tracks np.array([]) has one
\* dimension and box_iou_batch indexes two (IndexError); without detections
\* np.argmax gets rows of no element (ValueError)
match_detections_with_tracks_raises(tlbr_boxes, track_ids, tracks) ==
    IF tracks = <<>> THEN "IndexError"
    ELSE IF tlbr_boxes = <<>> THEN "ValueError"
    ELSE "none"

\* match_detections_with_tracks (when it returns): the track_ids returned,
\* which is the array passed in, updated in place
match_detections_with_tracks(tlbr_boxes, track_ids, tracks) ==
    LET tracks_boxes == [i \in 1..Len(tracks) |-> STrack_tlbr(tracks[i])]
        iou == box_iou_batch(tracks_boxes, tlbr_boxes)
    IN assign_track_ids(iou, track_ids, tracks, 1)

----------------------------------------------------------------------------
(* byte_tracker: list helpers.  Lists are sequences of heap indices; h is the
   heap the track fields are read from. *)

\* {track.track_id: track for track in a + b}: keys keep the order of their
\* first occurrence, each key holds the last track that has it
RECURSIVE joint_from(_, _, _)
joint_from(h, all, i) ==
    IF i > Len(all) THEN <<>>
    ELSE LET same == {j \in 1..Len(all) : h[all[j]].track_id = h[all[i]].track_id}
             lastj == CHOOSE j \in same : \A j2 \in same : j2 <= j
         IN (IF \A j \in same : j >= i THEN <<all[lastj]>> ELSE <<>>)
              \o joint_from(h, all, i + 1)

joint_stracks(h, track_list_a, track_list_b) ==
    joint_from(h, track_list_a \o track_list_b, 1)

\* a sub_stracks that subtracts nothing
sub_stracks_keep(h, track_list_a, track_list_b) == track_list_a

sub_stracks(h, track_list_a, track_list_b) ==
    LET track_ids_b == {h[o].track_id : o \in Range(track_list_b)}
    IN SelectSeq(track_list_a, LAMBDA o : h[o].track_id \notin track_ids_b)

RECURSIVE drop_indices(_, _, _)
drop_indices(s, D, i) ==
    IF i > Len(s) THEN <<>>
    ELSE (IF i \in D THEN <<>> ELSE <<s[i]>>) \o drop_indices(s, D, i + 1)

boxes_of(h, stracks) == [i \in 1..Len(stracks) |-> STrack_tlbr(h[stracks[i]])]

\* a remove_duplicate_stracks that drops nothing
remove_duplicate_stracks_none(h, s_tracks_a, s_tracks_b) == <<s_tracks_a, s_tracks_b>>

remove_duplicate_stracks(h, s_tracks_a, s_tracks_b) ==
    LET pairwise_distance == iou_distance(boxes_of(h, s_tracks_a), boxes_of(h, s_tracks_b))
        pairs == {p \in DOMAIN pairwise_distance.c :
                     pairwise_distance.c[p] # NaN /\ pairwise_distance.c[p] < 1500}
        time_a(p) == h[s_tracks_a[p[1]]].frame_id - h[s_tracks_a[p[1]]].start_frame
        time_b(p) == h[s_tracks_b[p[2]]].frame_id - h[s_tracks_b[p[2]]].start_frame
        duplicates_b == {p[2] : p \in {q \in pairs : time_a(q) > time_b(q)}}
        duplicates_a == {p[1] : p \in {q \in pairs : ~(time_a(q) > time_b(q))}}
    IN <<drop_indices(s_tracks_a, duplicates_a, 1), drop_indices(s_tracks_b, duplicates_b, 1)>>

----------------------------------------------------------------------------
(* BYTETracker *)

\* a det_thresh without the added 0.1
det_thresh_same == track_thresh

det_thresh == track_thresh + 10
buffer_size == (frame_rate * TrackBuffer) \div 30
max_time_lost == buffer_size

img_info == <<720, 1280>>
img_size == <<720, 1280>>

\* the record of what the latest update() did with the rows of its input
\* (recorded for the properties): the scores of the rows, the row numbers of
\* the high- and the low-confidence set, the <<track, row>> pairs matched by
\* the first association, by the second and to unconfirmed tracks, the
\* <<track, row>> pairs of the tracks activated, the tracks offered to the
\* second association and the unconfirmed tracks
NoAudit ==
    [scores |-> <<>>, high |-> <<>>, low |-> <<>>,
     first |-> {}, second |-> {}, unconf |-> {}, born |-> {},
     r_tracked |-> <<>>, unconfirmed |-> <<>>]

BYTETracker_init ==
    [constructed |-> TRUE, frame_id |-> 0,
     tracked_stracks |-> <<>>, lost_stracks |-> <<>>, removed_stracks |-> <<>>,
     \* what the latest update() returned, the tracks it re-found, and the two
     \* lists it handed to remove_duplicate_stracks (recorded for the properties)
     ret |-> <<>>, refind |-> <<>>, pre_tracked |-> <<>>, pre_lost |-> <<>>,
     aud |-> NoAudit]

NotConstructed == [BYTETracker_init EXCEPT !.constructed = FALSE]

\* scores of _process_output (boxes are columns 0..3 of the same rows)
process_output_score(row) ==
    IF Len(row) = 5 THEN row[5] ELSE (row[5] * row[6]) \div 100

process_output_bbox(row) == <<row[1], row[2], row[3], row[4]>>

\* _scale_bboxes on the boxes of all rows
scale_bboxes(bboxes) ==
    LET scale == Min2(img_size[1] \div img_info[1], img_size[2] \div img_info[2])
    IN [i \in 1..Len(bboxes) |->
           <<bboxes[i][1] \div scale, bboxes[i][2] \div scale,
             bboxes[i][3] \div scale, bboxes[i][4] \div scale>>]

\* _get_detections: one STrack per box
get_detections(bboxes, scores) ==
    [i \in 1..Len(bboxes) |-> STrack_init(tlbr_to_tlwh(bboxes[i]), scores[i])]

det_boxes(detections) == [i \in 1..Len(detections) |-> det_tlbr(detections[i])]

\* _match_tracks_to_detections: the results linear_assignment can return
match_tracks_to_detections(h, stracks, detections, thresh) ==
    linear_assignment(iou_distance(boxes_of(h, stracks), det_boxes(detections)), thresh)

\* _update_tracks: the heap and the two output lists after the loop over matches
RECURSIVE update_tracks(_, _, _, _, _, _, _)
update_tracks(h, stracks, detections, matches, refind_stracks, activated_stracks, frame_id) ==
    IF matches = <<>>
    THEN [h |-> h, refind_stracks |-> refind_stracks, activated_stracks |-> activated_stracks]
    ELSE LET track == stracks[Head(matches)[1]]
             det == detections[Head(matches)[2]]
         IN IF h[track].state = "Tracked"
            THEN update_tracks([h EXCEPT ![track] = STrack_update(h[track], det, frame_id)],
                               stracks, detections, Tail(matches),
                               refind_stracks, Append(activated_stracks, track), frame_id)
            ELSE update_tracks([h EXCEPT ![track] = STrack_re_activate(h[track], det, frame_id)],
                               stracks, detections, Tail(matches),
                               Append(refind_stracks, track), activated_stracks, frame_id)

\* for it in u_track: mark_lost unless already Lost
RECURSIVE lose_tracks(_, _, _, _)
lose_tracks(h, r_tracked_stracks, u_track, lost_stracks) ==
    IF u_track = <<>> THEN [h |-> h, lost_stracks |-> lost_stracks]
    ELSE LET track == r_tracked_stracks[Head(u_track)]
         IN IF h[track].state # "Lost"
            THEN lose_tracks([h EXCEPT ![track] = mark_lost(h[track])], r_tracked_stracks,
                             Tail(u_track), Append(lost_stracks, track))
            ELSE lose_tracks(h, r_tracked_stracks, Tail(u_track), lost_stracks)

\* the matched unconfirmed tracks are updated
RECURSIVE update_unconfirmed(_, _, _, _, _, _)
update_unconfirmed(h, unconfirmed, detections, matches, activated_stracks, frame_id) ==
    IF matches = <<>> THEN [h |-> h, activated_stracks |-> activated_stracks]
    ELSE LET track == unconfirmed[Head(matches)[1]]
         IN update_unconfirmed(
                [h EXCEPT ![track] = STrack_update(h[track], detections[Head(matches)[2]], frame_id)],
                unconfirmed, detections, Tail(matches), Append(activated_stracks, track), frame_id)

\* mark_removed every track of stracks at an index of idx
RECURSIVE remove_tracks(_, _, _, _)
remove_tracks(h, stracks, idx, removed_stracks) ==
    IF idx = <<>> THEN [h |-> h, removed_stracks |-> removed_stracks]
    ELSE LET track == stracks[Head(idx)]
         IN remove_tracks([h EXCEPT ![track] = mark_removed(h[track])], stracks,
                          Tail(idx), Append(removed_stracks, track))

\* new tracks: the unmatched detections whose score reaches det_thresh are
\* activated; born lists the <<track, inew>> of every activate() call
RECURSIVE new_tracks(_, _, _, _, _, _, _, _)
new_tracks(h, c, detections, u_detection, activated_stracks, born, frame_id, owner) ==
    IF u_detection = <<>>
    THEN [h |-> h, count |-> c, activated_stracks |-> activated_stracks, born |-> born]
    ELSE LET track == detections[Head(u_detection)]
         IN IF track.score >= det_thresh
            THEN new_tracks(Append(h, STrack_activate(track, frame_id, c, owner)),
                            next_id_value(c), detections, Tail(u_detection),
                            Append(activated_stracks, Len(h) + 1),
                            Append(born, <<Len(h) + 1, Head(u_detection)>>),
                            frame_id, owner)
            ELSE new_tracks(h, c, detections, Tail(u_detection), activated_stracks,
                            born, frame_id, owner)

\* an expiry test that is met one frame early
expired_early(h, track, frame_id) == frame_id - end_frame(h[track]) >= max_time_lost

expired(h, track, frame_id) == frame_id - end_frame(h[track]) > max_time_lost

pick(s, idx) == [i \in 1..Len(idx) |-> s[idx[i]]]

\* the rows a frame can offer and the inputs of update()
Rows == {<<x, 0, x + BoxW, BoxH, sc>> : x \in 0..(NumPos - 1), sc \in Scores}
Inputs == UNION {[1..n -> Rows] : n \in 0..MaxDets}

\* the inputs of the two-tracker specification: high-confidence boxes at two
\* disjoint positions
RowsMulti == {<<x, 0, x + BoxW, BoxH, 90>> : x \in {0, BoxW}}
InputsMulti == UNION {[1..n -> RowsMulti] : n \in 0..MaxDets}

\* the inputs of the specification of the score thresholds: one box, with
\* scores at, just below and just above 0.1, track_thresh and det_thresh
ScoresEdge == {10, 15, track_thresh, 30, det_thresh, 90}
RowsEdge == {<<0, 0, BoxW, BoxH, sc>> : sc \in ScoresEdge}
InputsEdge == UNION {[1..n -> RowsEdge] : n \in 0..MaxDets}

\* BYTETracker.update(output_results, img_info, img_size) on tracker k.
\* Each intermediate value of the method is bound once, in the order the
\* method computes it (\E x \in {e} binds x to the value of e).
update(k, output_results, limit) ==
    /\ tr[k].constructed
    /\ tr[k].frame_id < limit
    /\ \E self \in {tr[k]} :
       \E frame_id \in {self.frame_id + 1} :
       \E scores \in {[i \in 1..Len(output_results) |-> process_output_score(output_results[i])]} :
       \E bboxes \in {scale_bboxes([i \in 1..Len(output_results) |->
                                        process_output_bbox(output_results[i])])} :
       \E high \in {SetToSortedSeq({i \in 1..Len(scores) : scores[i] > track_thresh})} :
       \E low \in {SetToSortedSeq({i \in 1..Len(scores) :
                                       scores[i] > 10 /\ scores[i] < track_thresh})} :
       \E detections \in {get_detections(pick(bboxes, high), pick(scores, high))} :
       \E detections_second \in {get_detections(pick(bboxes, low), pick(scores, low))} :
       \E unconfirmed \in {SelectSeq(self.tracked_stracks, LAMBDA o : ~heap[o].is_activated)} :
       \E tracked_stracks \in {SelectSeq(self.tracked_stracks, LAMBDA o : heap[o].is_activated)} :
       \E strack_pool \in {joint_stracks(heap, tracked_stracks, self.lost_stracks)} :
       \E h1 \in {STrack_multi_predict(heap, strack_pool)} :
       \* first association
       \E a1 \in match_tracks_to_detections(h1, strack_pool, detections, match_thresh) :
       \E s1 \in {update_tracks(h1, strack_pool, detections, a1.matches, <<>>, <<>>, frame_id)} :
       \* second association
       \E r_tracked_stracks \in
             {pick(strack_pool,
                   SelectSeq(a1.u_a, LAMBDA i : s1.h[strack_pool[i]].state = "Tracked"))} :
       \E a2 \in match_tracks_to_detections(s1.h, r_tracked_stracks, detections_second, 5000) :
       \E s2 \in {update_tracks(s1.h, r_tracked_stracks, detections_second, a2.matches,
                                s1.refind_stracks, s1.activated_stracks, frame_id)} :
       \E s3 \in {lose_tracks(s2.h, r_tracked_stracks, a2.u_a, <<>>)} :
       \* unconfirmed tracks
       \E detections_rem \in {pick(detections, a1.u_b)} :
       \E a3 \in match_tracks_to_detections(s3.h, unconfirmed, detections_rem, 7000) :
       \E s4 \in {update_unconfirmed(s3.h, unconfirmed, detections_rem, a3.matches,
                                     s2.activated_stracks, frame_id)} :
       \E s5 \in {remove_tracks(s4.h, unconfirmed, a3.u_a, <<>>)} :
       \* new tracks
       \E s6 \in {new_tracks(s5.h, count, detections_rem, a3.u_b,
                             s4.activated_stracks, <<>>, frame_id, k)} :
       \* lost tracks that are too old
       \E late \in {SetToSortedSeq({i \in 1..Len(self.lost_stracks) :
                                        expired(s6.h, self.lost_stracks[i], frame_id)})} :
       \E s7 \in {remove_tracks(s6.h, self.lost_stracks, late, s5.removed_stracks)} :
       \E removed_stracks \in {s7.removed_stracks \o pick(self.lost_stracks, late)} :
       \* the lists
       \E t1 \in {SelectSeq(self.tracked_stracks, LAMBDA o : s7.h[o].state = "Tracked")} :
       \E t2 \in {joint_stracks(s7.h, t1, s6.activated_stracks)} :
       \E t3 \in {joint_stracks(s7.h, t2, s2.refind_stracks)} :
       \E l1 \in {sub_stracks(s7.h, self.lost_stracks, t3)} :
       \E l2 \in {l1 \o s3.lost_stracks} :
       \E l3 \in {sub_stracks(s7.h, l2, self.removed_stracks)} :
       \E dd \in {remove_duplicate_stracks(s7.h, t3, l3)} :
          /\ heap' = s7.h
          /\ count' = s6.count
          /\ tr' = [tr EXCEPT ![k] =
                       [self EXCEPT !.frame_id = frame_id,
                                    !.tracked_stracks = dd[1],
                                    !.lost_stracks = dd[2],
                                    !.removed_stracks = self.removed_stracks \o removed_stracks,
                                    !.ret = SelectSeq(dd[1], LAMBDA o : s7.h[o].is_activated),
                                    !.refind = s2.refind_stracks,
                                    !.pre_tracked = t3,
                                    !.pre_lost = l3,
                                    !.aud =
                                       [scores |-> scores, high |-> high, low |-> low,
                                        first |-> {<<strack_pool[m[1]], high[m[2]]>> :
                                                      m \in Range(a1.matches)},
                                        second |-> {<<r_tracked_stracks[m[1]], low[m[2]]>> :
                                                      m \in Range(a2.matches)},
                                        unconf |-> {<<unconfirmed[m[1]], high[a1.u_b[m[2]]]>> :
                                                      m \in Range(a3.matches)},
                                        born |-> {<<b[1], high[a1.u_b[b[2]]]>> :
                                                      b \in Range(s6.born)},
                                        r_tracked |-> r_tracked_stracks,
                                        unconfirmed |-> unconfirmed]]]
          /\ last' = [op |-> "update", k |-> k]
          /\ UNCHANGED fn

\* BYTETracker.__init__ of tracker k: fresh lists, and the class counter is reset
construct(k) ==
    /\ ~tr[k].constructed
    /\ tr' = [tr EXCEPT ![k] = BYTETracker_init]
    /\ count' = 0
    /\ last' = [op |-> "construct", k |-> k]
    /\ UNCHANGED <<heap, fn>>

\* no function has been called directly
NoCall == [f |-> "none", done |-> FALSE, h |-> <<>>, a |-> <<>>, b |-> <<>>, out |-> <<>>]

Init ==
    /\ count = 0
    /\ heap = <<>>
    /\ tr = [k \in Trackers |-> IF k = 1 THEN BYTETracker_init ELSE NotConstructed]
    /\ last = [op |-> "init", k |-> 1]
    /\ fn = NoCall

Update1 == \E output_results \in Inputs : update(1, output_results, MaxFrame)

Next == Update1

\* one tracker of one video stream
Spec == Init /\ [][Next]_vars

UpdateFirst == \E output_results \in InputsMulti : update(1, output_results, MaxFrameMulti)

ConstructOther == construct(2)

UpdateOther == \E output_results \in InputsMulti : update(2, output_results, MaxFrameOther)

NextMulti == UpdateFirst \/ ConstructOther \/ UpdateOther

\* a second tracker is constructed and used while the first one is in use
SpecMulti == Init /\ [][NextMulti]_vars

UpdateEdge == \E output_results \in InputsEdge : update(1, output_results, MaxFrameEdge)

NextEdge == UpdateEdge

\* one tracker, fed with scores at the thresholds
SpecEdge == Init /\ [][NextEdge]_vars

\* inputs with a structural error: detection matrices of four columns (the
\* boxes without a score)
RowsBad == {<<x, 0, x + BoxW, BoxH>> : x \in {0, BoxW}}
InputsBad == UNION {[1..n -> RowsBad] : n \in 1..MaxDets}

\* BYTETracker.update on a matrix that has not five columns, given as a numpy
\* array: frame_id is incremented, then _process_output takes its else branch
\* and raises (an ndarray has no cpu(); a tensor of four columns has no column
\* 4), and nothing catches it
update_raises(k, output_results, limit) ==
    /\ tr[k].constructed
    /\ tr[k].frame_id < limit
    /\ output_results # <<>>
    /\ \A i \in 1..Len(output_results) : Len(output_results[i]) < 5
    /\ tr' = [tr EXCEPT ![k].frame_id = tr[k].frame_id + 1]
    /\ last' = [op |-> "update_raised", k |-> k]
    /\ UNCHANGED <<count, heap, fn>>

\* STrack._update_track up to the statement that raises: frame_id and
\* tracklet_len are set, then KalmanFilter.update raises in cho_factor
STrack_update_track_raises(t, frame_id) ==
    [t EXCEPT !.frame_id = frame_id,
              !.tracklet_len = t.tracklet_len + 1]

\* BYTETracker.update when the Kalman correction of a match of the first
\* association raises LinAlgError (cho_factor on a projected covariance that
\* is not positive definite).  The covariance is not carried, so any match
\* can be the one that fails: the matches before it are updated, the failing
\* track is left as _update_track had it when the exception was raised, and
\* the exception leaves update() (nothing catches it).
update_raises_kalman(k, output_results, limit) ==
    /\ tr[k].constructed
    /\ tr[k].frame_id < limit
    /\ \E self \in {tr[k]} :
       \E frame_id \in {self.frame_id + 1} :
       \E scores \in {[i \in 1..Len(output_results) |-> process_output_score(output_results[i])]} :
       \E bboxes \in {scale_bboxes([i \in 1..Len(output_results) |->
                                        process_output_bbox(output_results[i])])} :
       \E high \in {SetToSortedSeq({i \in 1..Len(scores) : scores[i] > track_thresh})} :
       \E detections \in {get_detections(pick(bboxes, high), pick(scores, high))} :
       \E tracked_stracks \in {SelectSeq(self.tracked_stracks, LAMBDA o : heap[o].is_activated)} :
       \E strack_pool \in {joint_stracks(heap, tracked_stracks, self.lost_stracks)} :
       \E h1 \in {STrack_multi_predict(heap, strack_pool)} :
       \E a1 \in match_tracks_to_detections(h1, strack_pool, detections, match_thresh) :
       \E failing \in 1..Len(a1.matches) :
       \E s1 \in {update_tracks(h1, strack_pool, detections, SubSeq(a1.matches, 1, failing - 1),
                                <<>>, <<>>, frame_id)} :
       \E track \in {strack_pool[a1.matches[failing][1]]} :
          /\ heap' = [s1.h EXCEPT ![track] = STrack_update_track_raises(s1.h[track], frame_id)]
          /\ tr' = [tr EXCEPT ![k].frame_id = frame_id]
          /\ last' = [op |-> "update_raised_kalman", k |-> k, track |-> track,
                      pending |-> {strack_pool[a1.matches[i][1]] :
                                      i \in (failing + 1)..Len(a1.matches)}]
          /\ UNCHANGED <<count, fn>>

UpdateErr == \E output_results \in InputsMulti : update(1, output_results, MaxFrameErr)

UpdateKalmanRaises ==
    \E output_results \in InputsMulti : update_raises_kalman(1, output_results, MaxFrameErr)

UpdateBad == \E output_results \in InputsBad : update_raises(1, output_results, MaxFrameErr)

NextErr == UpdateErr \/ UpdateBad \/ UpdateKalmanRaises

\* one tracker that is also fed malformed detection matrices and whose
\* Kalman correction can fail
SpecErr == Init /\ [][NextErr]_vars

\* the inputs of the specification of two trackers fed alike: two disjoint
\* boxes, each with a score of its own (the scores of a matrix tell its rows),
\* and no box twice in a frame (no assignment problem has two solutions, so
\* the answer of the solver is known)
RowsPair == {<<0, 0, BoxW, BoxH, 90>>, <<BoxW, 0, BoxW + BoxW, BoxH, 80>>}
InputsPair ==
    {rows \in UNION {[1..n -> RowsPair] : n \in 0..MaxDets} :
        \A i, j \in 1..Len(rows) : i # j => rows[i] # rows[j]}

\* the second tracker is constructed before the first one has seen a frame
ConstructTwin == tr[1].frame_id = 0 /\ construct(2)

\* the first tracker takes the next frame when the second has caught up
UpdateLead ==
    /\ tr[2].constructed
    /\ tr[1].frame_id = tr[2].frame_id
    /\ \E output_results \in InputsPair : update(1, output_results, MaxFramePair)

\* the second tracker takes the frame the first one has just taken
UpdateTwin ==
    /\ tr[2].constructed
    /\ tr[2].frame_id < tr[1].frame_id
    /\ \E output_results \in InputsPair :
          /\ [i \in 1..Len(output_results) |-> process_output_score(output_results[i])]
                = tr[1].aud.scores
          /\ update(2, output_results, MaxFramePair)

NextPair == ConstructTwin \/ UpdateLead \/ UpdateTwin

\* two trackers of one process, constructed one after the other and then fed
\* the same frames, each frame first to the one, then to the other
SpecPair == Init /\ [][NextPair]_vars

----------------------------------------------------------------------------
(* Direct calls of joint_stracks and remove_duplicate_stracks.  fn.h holds the
   track objects of the call, fn.a and fn.b the two argument lists (indices
   into fn.h), fn.out the result. *)

\* an activated track with the given id at the box with left edge x
FnTrack(id, x, state, frame_id, start_frame) ==
    [track_id |-> id,
     mean |-> KalmanFilter_initiate(tlwh_to_xyah(<<x, 0, BoxW, BoxH>>)),
     tracklet_len |-> frame_id - start_frame,
     state |-> state,
     is_activated |-> TRUE,
     frame_id |-> frame_id,
     start_frame |-> start_frame,
     score |-> 90,
     owner |-> 1]

\* arguments of joint_stracks: up to three objects whose track_ids may
\* coincide, and two lists of references to them
JointArgs(max_len) ==
    {[f |-> "joint_stracks", done |-> FALSE,
      h |-> [i \in 1..3 |-> FnTrack(ids[i], 0, "Tracked", MaxFnFrame, i)],
      a |-> a, b |-> b, out |-> <<>>] :
        ids \in [1..3 -> 1..2],
        a \in UNION {[1..n -> 1..3] : n \in 0..max_len},
        b \in UNION {[1..n -> 1..3] : n \in 0..max_len}}

\* the shapes <<x, frame_id, start_frame>> of a track of the tracked list in
\* frame MaxFnFrame, and of a track of the lost list
TrackedShapes == {<<x, MaxFnFrame, sf>> : x \in 0..1, sf \in 1..MaxFnFrame}
LostShapes ==
    {<<x, f, sf>> : x \in 0..1, f \in 1..(MaxFnFrame - 1), sf \in 1..(MaxFnFrame - 1)} \cap
    {s \in (0..1) \X (1..MaxFnFrame) \X (1..MaxFnFrame) : s[3] <= s[2]}

\* arguments of remove_duplicate_stracks: a tracked and a lost list of
\* distinct tracks with distinct track_ids
DedupArgs(max_len) ==
    {[f |-> "remove_duplicate_stracks", done |-> FALSE,
      h |-> [i \in 1..(Len(ta) + Len(tb)) |->
                IF i <= Len(ta)
                THEN FnTrack(i, ta[i][1], "Tracked", ta[i][2], ta[i][3])
                ELSE FnTrack(i, tb[i - Len(ta)][1], "Lost", tb[i - Len(ta)][2], tb[i - Len(ta)][3])],
      a |-> [i \in 1..Len(ta) |-> i],
      b |-> [i \in 1..Len(tb) |-> Len(ta) + i],
      out |-> <<>>] :
        ta \in UNION {[1..n -> TrackedShapes] : n \in 0..max_len},
        tb \in UNION {[1..n -> LostShapes] : n \in 0..max_len}}

InitFn ==
    /\ count = 0
    /\ heap = <<>>
    /\ tr = [k \in Trackers |-> IF k = 1 THEN BYTETracker_init ELSE NotConstructed]
    /\ last = [op |-> "init", k |-> 1]
    /\ fn \in JointArgs(MaxFnList) \cup DedupArgs(MaxFnList)

call_joint_stracks ==
    /\ fn.f = "joint_stracks" /\ ~fn.done
    /\ fn' = [fn EXCEPT !.done = TRUE, !.out = joint_stracks(fn.h, fn.a, fn.b)]
    /\ UNCHANGED <<count, heap, tr, last>>

call_remove_duplicate_stracks ==
    /\ fn.f = "remove_duplicate_stracks" /\ ~fn.done
    /\ fn' = [fn EXCEPT !.done = TRUE, !.out = remove_duplicate_stracks(fn.h, fn.a, fn.b)]
    /\ UNCHANGED <<count, heap, tr, last>>

NextFn == call_joint_stracks \/ call_remove_duplicate_stracks

\* the module-level list functions, called on their own
SpecFn == InitFn /\ [][NextFn]_vars

----------------------------------------------------------------------------
(* Direct calls of linear_assignment.  fn.a is the cost matrix, fn.b the
   threshold, fn.out the result. *)

\* the thresholds update() passes: 0.5, 0.7 and match_thresh
AssignThresh == {5000, 7000, match_thresh}

\* costs at a threshold, below every threshold and above all of them
AssignCosts == {0, 7000, 9000}

\* the cost matrices of up to MaxAssignDim rows and columns (empty ones too)
AssignMatrices(max_dim) ==
    UNION {{[n |-> d[1], m |-> d[2], c |-> c] :
               c \in [(1..d[1]) \X (1..d[2]) -> AssignCosts]} :
           d \in (0..max_dim) \X (0..max_dim)}

AssignArgs(max_dim) ==
    {[f |-> "linear_assignment", done |-> FALSE, h |-> <<>>,
      a |-> cost_matrix, b |-> thresh, out |-> <<>>] :
        cost_matrix \in AssignMatrices(max_dim), thresh \in AssignThresh}

InitAssign ==
    /\ count = 0
    /\ heap = <<>>
    /\ tr = [k \in Trackers |-> IF k = 1 THEN BYTETracker_init ELSE NotConstructed]
    /\ last = [op |-> "init", k |-> 1]
    /\ fn \in AssignArgs(MaxAssignDim)

call_linear_assignment ==
    /\ fn.f = "linear_assignment" /\ ~fn.done
    /\ \E result \in linear_assignment(fn.a, fn.b) :
          fn' = [fn EXCEPT !.done = TRUE, !.out = result]
    /\ UNCHANGED <<count, heap, tr, last>>

NextAssign == call_linear_assignment

\* the assignment kernel, called on its own
SpecAssign == InitAssign /\ [][NextAssign]_vars

----------------------------------------------------------------------------
(* Direct calls of the IoU kernel and of the assignment on its costs.  fn.a
   and fn.b are the two lists of boxes; ious is called on them, then
   iou_distance, then linear_assignment on the cost matrix (fn.cost) with the
   threshold fn.thresh; fn.raised names the exception of a call that raised. *)

\* a box, a box that overlaps it, a box without width inside it and a point
IouBoxes ==
    {<<0, 0, BoxW, BoxH>>, <<BoxW \div 2, 0, BoxW + BoxW \div 2, BoxH>>,
     <<BoxH, 0, BoxH, BoxH>>, <<0, 0, 0, 0>>}

IouLists(max_len) == UNION {[1..n -> IouBoxes] : n \in 0..max_len}

IouArgs(max_len) ==
    {[f |-> "ious", done |-> FALSE, h |-> <<>>, a |-> atlbrs, b |-> btlbrs, out |-> <<>>,
      cost |-> <<>>, thresh |-> 0, raised |-> "none"] :
        atlbrs \in IouLists(max_len), btlbrs \in IouLists(max_len)}

InitIou ==
    /\ count = 0
    /\ heap = <<>>
    /\ tr = [k \in Trackers |-> IF k = 1 THEN BYTETracker_init ELSE NotConstructed]
    /\ last = [op |-> "init", k |-> 1]
    /\ fn \in IouArgs(MaxIouBoxes)

call_ious ==
    /\ fn.f = "ious" /\ ~fn.done
    /\ fn' = [fn EXCEPT !.done = TRUE, !.out = ious(fn.a, fn.b)]
    /\ UNCHANGED <<count, heap, tr, last>>

call_iou_distance ==
    /\ fn.f = "ious" /\ fn.done
    /\ fn' = [fn EXCEPT !.f = "iou_distance", !.out = iou_distance(fn.a, fn.b)]
    /\ UNCHANGED <<count, heap, tr, last>>

\* linear_assignment(cost_matrix, thresh) on the costs of iou_distance returns
call_linear_assignment_iou ==
    /\ fn.f = "iou_distance" /\ fn.done
    /\ \E thresh \in AssignThresh :
       \E result \in linear_assignment(fn.out, thresh) :
          fn' = [fn EXCEPT !.f = "linear_assignment", !.cost = fn.out,
                           !.thresh = thresh, !.out = result]
    /\ UNCHANGED <<count, heap, tr, last>>

\* linear_assignment(cost_matrix, thresh) on the costs of iou_distance raises
call_linear_assignment_iou_raises ==
    /\ fn.f = "iou_distance" /\ fn.done
    /\ \E thresh \in AssignThresh :
          /\ linear_assignment_raises(fn.out, thresh)
          /\ fn' = [fn EXCEPT !.f = "linear_assignment", !.cost = fn.out,
                              !.thresh = thresh, !.out = <<>>,
                              !.raised = "ValueError"]
    /\ UNCHANGED <<count, heap, tr, last>>

NextIou ==
    \/ call_ious
    \/ call_iou_distance
    \/ call_linear_assignment_iou
    \/ call_linear_assignment_iou_raises

\* the IoU kernel and the assignment on its costs, called on their own
SpecIou == InitIou /\ [][NextIou]_vars

----------------------------------------------------------------------------
(* Direct calls of match_detections_with_tracks.  fn.h is the list of tracks
   (STrack objects), fn.a the detection boxes, fn.b the track_ids passed in,
   fn.out the track_ids returned; fn.raised names the exception of a call
   that raised. *)

\* a track of the given id on the box tlwh
MatchTrack(id, tlwh) == STrack_activate(STrack_init(tlwh, 90), 1, id - 1, 1)

\* the boxes of the tracks: two next to each other and one without width
MatchTrackBoxes == {<<0, 0, BoxW, BoxH>>, <<BoxW, 0, BoxW, BoxH>>, <<BoxH, 0, 0, BoxH>>}

\* lists of tracks: the track at index i has track_id i
MatchTracks(max_len) ==
    UNION {{[i \in 1..n |-> MatchTrack(i, boxes[i])] : boxes \in [1..n -> MatchTrackBoxes]} :
           n \in 0..max_len}

\* the entries of track_ids before the call: -1 (no track) or an id no track
\* of the list has
MatchIds == {-1, MaxIouBoxes + 5}

MatchArgs(max_len) ==
    UNION {{[f |-> "match_detections_with_tracks", done |-> FALSE, h |-> tracks,
             a |-> tlbr_boxes, b |-> track_ids, out |-> <<>>, raised |-> "none"] :
               tracks \in MatchTracks(max_len),
               tlbr_boxes \in [1..m -> IouBoxes],
               track_ids \in [1..m -> MatchIds]} :
           m \in 0..max_len}

InitMatch ==
    /\ count = 0
    /\ heap = <<>>
    /\ tr = [k \in Trackers |-> IF k = 1 THEN BYTETracker_init ELSE NotConstructed]
    /\ last = [op |-> "init", k |-> 1]
    /\ fn \in MatchArgs(MaxIouBoxes)

call_match_detections_with_tracks ==
    /\ fn.f = "match_detections_with_tracks" /\ ~fn.done
    /\ match_detections_with_tracks_raises(fn.a, fn.b, fn.h) = "none"
    /\ fn' = [fn EXCEPT !.done = TRUE,
                        !.out = match_detections_with_tracks(fn.a, fn.b, fn.h)]
    /\ UNCHANGED <<count, heap, tr, last>>

\* the call raises before the loop: track_ids is left as it was
call_match_detections_with_tracks_raises ==
    /\ fn.f = "match_detections_with_tracks" /\ ~fn.done
    /\ match_detections_with_tracks_raises(fn.a, fn.b, fn.h) # "none"
    /\ fn' = [fn EXCEPT !.done = TRUE, !.out = fn.b,
                        !.raised = match_detections_with_tracks_raises(fn.a, fn.b, fn.h)]
    /\ UNCHANGED <<count, heap, tr, last>>

NextMatch == call_match_detections_with_tracks \/ call_match_detections_with_tracks_raises

\* the id-transfer helper, called on its own
SpecMatch == InitMatch /\ [][NextMatch]_vars

----------------------------------------------------------------------------
(* Direct calls of the constructor with every kind of configuration.  fn.a
   holds the arguments, fn.out the attributes of the object constructed. *)

\* int(x / 30.0) for an integer x: truncation towards zero
int_div30(x) == IF x >= 0 THEN x \div 30 ELSE -((-x) \div 30)

\* BYTETracker.__init__: the attributes it sets from its arguments; no
\* statement of it raises
BYTETracker_new(args) ==
    [raised |-> FALSE,
     track_thresh |-> args.track_thresh,
     match_thresh |-> args.match_thresh,
     frame_id |-> 0,
     det_thresh |-> args.track_thresh + 10,
     buffer_size |-> int_div30(args.frame_rate * args.track_buffer),
     max_time_lost |-> int_div30(args.frame_rate * args.track_buffer),
     tracked_stracks |-> <<>>, lost_stracks |-> <<>>, removed_stracks |-> <<>>]

\* configurations: the defaults, and negative, zero and too large values
CtorArgs ==
    {[f |-> "BYTETracker", done |-> FALSE, h |-> <<>>,
      a |-> [track_thresh |-> tt, track_buffer |-> tb, match_thresh |-> mt, frame_rate |-> fr],
      b |-> <<>>, out |-> <<>>] :
        tt \in {-10, track_thresh, 150}, tb \in {-1, 0, TrackBuffer, 30},
        mt \in {-1000, match_thresh, 15000}, fr \in {-30, 0, frame_rate}}

InitCtor ==
    /\ count = 0
    /\ heap = <<>>
    /\ tr = [k \in Trackers |-> IF k = 1 THEN BYTETracker_init ELSE NotConstructed]
    /\ last = [op |-> "init", k |-> 1]
    /\ fn \in CtorArgs

call_BYTETracker ==
    /\ fn.f = "BYTETracker" /\ ~fn.done
    /\ fn' = [fn EXCEPT !.done = TRUE, !.out = BYTETracker_new(fn.a)]
    /\ count' = 0
    /\ UNCHANGED <<heap, tr, last>>

\* update() with a matrix of no rows on the tracker just constructed (it has
\* no track): frame_id is incremented, the lists stay empty
call_update_no_rows ==
    /\ fn.f = "BYTETracker" /\ fn.done /\ ~fn.out.raised
    /\ fn.out.frame_id < MaxFrameCtor
    /\ fn' = [fn EXCEPT !.out.frame_id = fn.out.frame_id + 1]
    /\ UNCHANGED <<count, heap, tr, last>>

NextCtor == call_BYTETracker \/ call_update_no_rows

\* trackers constructed with every kind of configuration
SpecCtor == InitCtor /\ [][NextCtor]_vars

----------------------------------------------------------------------------
(* Direct calls of the two box conversions, one after the other.  fn.f is the
   conversion called first, fn.a the box, fn.out the results so far. *)

\* floating-point coordinates: small ones, and two at which the spacing of
\* the floating-point numbers is 2
BoxCoords == {0, 1, 3, 2 ^ FloatBits, 2 ^ FloatBits + 4}

BoxArgs ==
    {[f |-> first, done |-> FALSE, h |-> <<>>, a |-> box, b |-> <<>>, out |-> <<>>] :
        first \in {"tlwh_to_tlbr", "tlbr_to_tlwh"},
        box \in BoxCoords \X BoxCoords \X BoxCoords \X BoxCoords}

InitBox ==
    /\ count = 0
    /\ heap = <<>>
    /\ tr = [k \in Trackers |-> IF k = 1 THEN BYTETracker_init ELSE NotConstructed]
    /\ last = [op |-> "init", k |-> 1]
    /\ fn \in BoxArgs

\* the box the next conversion is called on
BoxNow == IF fn.out = <<>> THEN fn.a ELSE fn.out[Len(fn.out)]

call_tlwh_to_tlbr ==
    /\ \/ fn.f = "tlwh_to_tlbr" /\ Len(fn.out) = 0
       \/ fn.f = "tlbr_to_tlwh" /\ Len(fn.out) = 1
    /\ fn' = [fn EXCEPT !.done = (Len(fn.out) = 1),
                        !.out = Append(fn.out, tlwh_to_tlbr(BoxNow))]
    /\ UNCHANGED <<count, heap, tr, last>>

call_tlbr_to_tlwh ==
    /\ \/ fn.f = "tlbr_to_tlwh" /\ Len(fn.out) = 0
       \/ fn.f = "tlwh_to_tlbr" /\ Len(fn.out) = 1
    /\ fn' = [fn EXCEPT !.done = (Len(fn.out) = 1),
                        !.out = Append(fn.out, tlbr_to_tlwh(BoxNow))]
    /\ UNCHANGED <<count, heap, tr, last>>

NextBox == call_tlwh_to_tlbr \/ call_tlbr_to_tlwh

\* the box conversions, called on their own
SpecBox == InitBox /\ [][NextBox]_vars

----------------------------------------------------------------------------
(* Direct calls of STrack.predict and STrack.multi_predict (fn.h holds the
   tracks, fn.a the list passed, fn.b the covariance of every track, fn.out
   the tracks and covariances afterwards), and of KalmanFilter.predict
   followed by KalmanFilter.update (fn.a is the mean, fn.b the covariance,
   fn.out the results so far). *)

\* velocities (of x, y, a, h) of a track
KalmanVels == {<<0, 0, 0, 0>>, <<1, -1, 1, 1>>, <<0, 0, 0, -1>>}

\* the covariance of a track just activated, and after one prediction
KalmanCovs ==
    {KalmanFilter_initiate_cov(tlwh_to_xyah(<<0, 0, BoxW, BoxH>>)),
     KalmanFilter_predict_cov(KalmanFilter_initiate(tlwh_to_xyah(<<0, 0, BoxW, BoxH>>)),
                              KalmanFilter_initiate_cov(tlwh_to_xyah(<<0, 0, BoxW, BoxH>>)))}

\* a track in the given state that moves with the given velocity
KalmanTrack(id, state, vel) ==
    [FnTrack(id, 0, state, MaxFnFrame, 1) EXCEPT
        !.mean = tlwh_to_xyah(<<0, 0, BoxW, BoxH>>) \o vel]

KalmanShapes == {"Tracked", "Lost", "Removed"} \X KalmanVels \X KalmanCovs

PredictArgs(max_len) ==
    {[f |-> f, done |-> FALSE,
      h |-> [i \in 1..Len(shapes) |-> KalmanTrack(i, shapes[i][1], shapes[i][2])],
      a |-> [i \in 1..Len(shapes) |-> i],
      b |-> [i \in 1..Len(shapes) |-> shapes[i][3]],
      out |-> <<>>] :
        f \in {"STrack.predict", "STrack.multi_predict"},
        shapes \in UNION {[1..n -> KalmanShapes] : n \in 0..max_len}}

\* Kalman gains: the measurement replaces the position; it also moves the
\* velocities; it is ignored
KalmanGains ==
    {[p \in (1..8) \X (1..4) |-> IF p[1] = p[2] THEN 1 ELSE 0],
     [p \in (1..8) \X (1..4) |-> IF p[1] = p[2] \/ p[1] = p[2] + 4 THEN 1 ELSE 0],
     [p \in (1..8) \X (1..4) |-> 0]}

\* what KalmanFilter.update needs of a covariance: whether its projection
\* is positive definite (cho_factor raises if it is not) and the gain that
\* comes of it
KalmanUpdateCovs ==
    {[positive_definite |-> TRUE, kalman_gain |-> g] : g \in KalmanGains}
      \cup {[positive_definite |-> FALSE, kalman_gain |-> <<>>]}

KalmanArgs ==
    {[f |-> "KalmanFilter", done |-> FALSE, h |-> <<>>,
      a |-> tlwh_to_xyah(<<0, 0, BoxW, BoxH>>) \o vel, b |-> covariance, out |-> <<>>] :
        vel \in KalmanVels, covariance \in KalmanUpdateCovs}

InitKalman ==
    /\ count = 0
    /\ heap = <<>>
    /\ tr = [k \in Trackers |-> IF k = 1 THEN BYTETracker_init ELSE NotConstructed]
    /\ last = [op |-> "init", k |-> 1]
    /\ fn \in PredictArgs(MaxFnList) \cup KalmanArgs

\* st.predict() for every track st of the list, one call after the other
call_STrack_predict ==
    /\ fn.f = "STrack.predict" /\ ~fn.done
    /\ fn' = [fn EXCEPT !.done = TRUE,
                        !.out = [h |-> [o \in DOMAIN fn.h |->
                                          IF o \in Range(fn.a) THEN STrack_predict(fn.h[o])
                                          ELSE fn.h[o]],
                                 cov |-> [o \in DOMAIN fn.b |->
                                          IF o \in Range(fn.a)
                                          THEN STrack_predict_cov(fn.h[o], fn.b[o])
                                          ELSE fn.b[o]]]]
    /\ UNCHANGED <<count, heap, tr, last>>

call_STrack_multi_predict ==
    /\ fn.f = "STrack.multi_predict" /\ ~fn.done
    /\ fn' = [fn EXCEPT !.done = TRUE,
                        !.out = [h |-> STrack_multi_predict(fn.h, fn.a),
                                 cov |-> STrack_multi_predict_cov(fn.h, fn.b, fn.a)]]
    /\ UNCHANGED <<count, heap, tr, last>>

call_KalmanFilter_predict ==
    /\ fn.f = "KalmanFilter" /\ fn.out = <<>>
    /\ fn' = [fn EXCEPT !.out = <<[raised |-> FALSE, mean |-> KalmanFilter_predict(fn.a)]>>]
    /\ UNCHANGED <<count, heap, tr, last>>

\* KalmanFilter.update of the predicted mean with the measurement
\* project(predicted mean)
call_KalmanFilter_update ==
    /\ fn.f = "KalmanFilter" /\ Len(fn.out) = 1
    /\ fn' = [fn EXCEPT
                 !.done = TRUE,
                 !.out = Append(fn.out,
                            IF fn.b.positive_definite
                            THEN [raised |-> FALSE,
                                  mean |-> KalmanFilter_update_gain(
                                               fn.out[1].mean,
                                               KalmanFilter_project(fn.out[1].mean),
                                               fn.b.kalman_gain)]
                            ELSE [raised |-> TRUE, mean |-> <<>>])]
    /\ UNCHANGED <<count, heap, tr, last>>

NextKalman ==
    \/ call_STrack_predict
    \/ call_STrack_multi_predict
    \/ call_KalmanFilter_predict
    \/ call_KalmanFilter_update

\* the prediction and correction steps, called on their own
SpecKalman == InitKalman /\ [][NextKalman]_vars

----------------------------------------------------------------------------
(* Properties.  Every reachable state is a state between update() calls. *)

\* the objects tracker k has activated
Objs(k) == {o \in DOMAIN heap : heap[o].owner = k}

Tracked(k) == Range(tr[k].tracked_stracks)
Lost(k) == Range(tr[k].lost_stracks)
Removed(k) == Range(tr[k].removed_stracks)
Returned(k) == Range(tr[k].ret)

\* C1: between update() calls every track the tracker has activated is in
\* exactly one of tracked, lost, removed, and that list matches its state.
C1_OneListMatchingState ==
    \A o \in Objs(1) :
        /\ heap[o].state = "Tracked" => (o \in Tracked(1) /\ o \notin Lost(1) /\ o \notin Removed(1))
        /\ heap[o].state = "Lost" => (o \notin Tracked(1) /\ o \in Lost(1) /\ o \notin Removed(1))
        /\ heap[o].state = "Removed" => (o \notin Tracked(1) /\ o \notin Lost(1) /\ o \in Removed(1))

\* C2: Removed is terminal: once a track is Removed no later update() changes
\* its state, and its track_id is in no list update() returns afterwards.
C2_RemovedIsTerminal ==
    [][\A o \in Objs(1) :
          heap[o].state = "Removed" =>
              /\ heap'[o].state = "Removed"
              /\ \A r \in Range(tr'[1].ret) : heap'[r].track_id # heap[o].track_id]_vars

\* C3: after every update() every track of the lost list satisfies
\* tracker.frame_id - t.frame_id <= max_time_lost.
C3_LostWithinBuffer ==
    \A o \in Lost(1) : tr[1].frame_id - heap[o].frame_id <= max_time_lost

\* C4 as stated: every track whose state is Tracked has is_activated = true.
C4_TrackedIsActivated ==
    \A o \in Objs(1) : heap[o].state = "Tracked" => heap[o].is_activated

\* C4 (amended): every track of the tracked list whose state is Tracked has
\* is_activated = true, unless it was born by the latest update() in a frame
\* other than frame 1 (it then waits, not activated, for its next match).
C4_TrackedIsActivatedOrNewborn ==
    \A o \in Tracked(1) :
        heap[o].state = "Tracked" =>
            \/ heap[o].is_activated
            \/ /\ heap[o].start_frame = tr[1].frame_id
               /\ heap[o].start_frame # 1
               /\ heap[o].tracklet_len = 0

\* a track born in frame 1 (activated at birth) and a track born later (not
\* activated), both Tracked and in the tracked list
C4_Witness ==
    /\ \E o \in Tracked(1) : heap[o].state = "Tracked" /\ ~heap[o].is_activated
    /\ \E o \in Tracked(1) : heap[o].state = "Tracked" /\ heap[o].is_activated
                              /\ heap[o].tracklet_len > 0

\* C5: after every update() no track_id is in both the tracked and the lost list.
C5_TrackedLostDisjoint ==
    \A a \in Tracked(1) : \A b \in Lost(1) : heap[a].track_id # heap[b].track_id

\* C6: every track of the list update() returns has track_id > 0, and no two
\* tracks of that list have the same track_id.
C6_ReturnedIdsPositiveUnique ==
    \A k \in Trackers :
        \A i \in 1..Len(tr[k].ret) :
            /\ heap[tr[k].ret[i]].track_id > 0
            /\ \A j \in 1..Len(tr[k].ret) :
                  i # j => heap[tr[k].ret[i]].track_id # heap[tr[k].ret[j]].track_id

\* an update() has returned two tracks
C6_Witness == last.op = "update" /\ Len(tr[last.k].ret) >= 2

\* C7: the k-th track a tracker activates gets track_id k, so no two distinct
\* tracks held in its tracked, lost or removed lists share a track_id.
C7_IdIsActivationRank ==
    /\ \A o \in Objs(1) : heap[o].track_id = Cardinality({p \in Objs(1) : p <= o})
    /\ \A a, b \in Tracked(1) \cup Lost(1) \cup Removed(1) :
          a # b => heap[a].track_id # heap[b].track_id

\* C8: constructing a second tracker, or calling update() on it, changes
\* neither the track_id the first tracker assigns to its next new track nor
\* the first tracker's lists and tracks.
C8_OtherTrackerLeavesFirstAlone ==
    [][last'.k = 2 =>
          /\ next_id_value(count') = next_id_value(count)
          /\ tr'[1] = tr[1]
          /\ \A o \in Objs(1) : heap'[o] = heap[o]]_vars

\* C9: a track that is Lost and is matched by no detection during
\* max_time_lost + 1 consecutive update() calls is Removed and in the removed
\* list after the last of them.  (A track's frame_id is the frame of its last
\* match, and a track is marked Lost by the update() that follows that frame.)
C9_LostExpires ==
    \A o \in Objs(1) :
        (/\ heap[o].state \in {"Lost", "Removed"}
         /\ heap[o].is_activated
         /\ tr[1].frame_id - heap[o].frame_id >= max_time_lost + 2)
        => (heap[o].state = "Removed" /\ o \in Removed(1))

\* o is matched by the update() of this step while Lost, in the lost list and
\* within max_time_lost frames of its last match
RefoundInTime(o) ==
    /\ heap[o].state = "Lost"
    /\ o \in Lost(1)
    /\ heap'[o].frame_id = tr'[1].frame_id
    /\ heap'[o].frame_id # heap[o].frame_id
    /\ tr'[1].frame_id - heap[o].frame_id <= max_time_lost

TimeOf(h, o) == h[o].frame_id - h[o].start_frame

----------------------------------------------------------------------------
(* The steps of update(): tr[1].aud is the record of the latest update() *)

\* the tracks a detection was matched to by the update() of this step
MatchedNow(a) == {p[1] : p \in a.first \cup a.second \cup a.unconf}

\* o is dropped from the tracked list by remove_duplicate_stracks in this
\* step: a track b handed to it in the lost list is a duplicate of o
\* (IoU distance < 0.15) and time(o) <= time(b)
DroppedAsDuplicate(o) ==
    \E b \in Range(tr'[1].pre_lost) :
        /\ CostScale - box_iou(STrack_tlbr(heap'[o]), STrack_tlbr(heap'[b])) < 1500
        /\ TimeOf(heap', o) <= TimeOf(heap', b)

Rescued ==
    {p \in tr'[1].aud.second :
        /\ heap[p[1]].state = "Tracked"
        /\ heap[p[1]].is_activated
        /\ p[1] \notin {q[1] : q \in tr'[1].aud.first}}

\* C12 as stated: a confirmed Tracked track matched in the second association
\* stays Tracked, keeps its track_id, takes the detection's score and is in
\* the returned list.
C12_RescuedIsReturned ==
    [][\A p \in Rescued :
          /\ heap'[p[1]].state = "Tracked"
          /\ heap'[p[1]].track_id = heap[p[1]].track_id
          /\ heap'[p[1]].score = tr'[1].aud.scores[p[2]]
          /\ p[1] \in Range(tr'[1].ret)]_vars

\* C12 (amended): such a track stays Tracked, keeps its track_id and takes the
\* detection's score (0.1 < score < track_thresh); it is in the tracked list
\* and in the returned list exactly when remove_duplicate_stracks does not
\* drop it.
C12_RescuedIsReturnedUnlessDuplicate ==
    [][\A p \in Rescued :
          /\ heap'[p[1]].state = "Tracked"
          /\ heap'[p[1]].track_id = heap[p[1]].track_id
          /\ heap'[p[1]].score = tr'[1].aud.scores[p[2]]
          /\ heap'[p[1]].score > 10 /\ heap'[p[1]].score < track_thresh
          /\ p[1] \in Range(tr'[1].pre_tracked)
          /\ (p[1] \in Range(tr'[1].tracked_stracks) /\ p[1] \in Range(tr'[1].ret))
                <=> ~DroppedAsDuplicate(p[1])]_vars

\* a track kept by a low-confidence detection in two frames running is returned
C12_Witness ==
    \E p \in tr[1].aud.second :
        /\ p[1] \in Returned(1)
        /\ heap[p[1]].state = "Tracked"
        /\ heap[p[1]].score < track_thresh
        /\ heap[p[1]].tracklet_len >= 2
        /\ heap[p[1]].start_frame = 1

\* the rows of the latest input that were matched to a track
MatchedRows(a) == {p[2] : p \in a.first \cup a.second \cup a.unconf}

\* C13: update() activates a new track (allocates a track_id) only for a row
\* with score > track_thresh that was matched neither in the first
\* association nor to an unconfirmed track and has score >= track_thresh +
\* 0.1; a row of the low-confidence set never creates a track.
C13_BornOnlyFromUnmatchedHigh ==
    [][/\ (DOMAIN heap') \ (DOMAIN heap) = {p[1] : p \in tr'[1].aud.born}
       /\ count' = count + Cardinality(tr'[1].aud.born)
       /\ \A p \in tr'[1].aud.born :
             /\ tr'[1].aud.scores[p[2]] > track_thresh
             /\ tr'[1].aud.scores[p[2]] >= track_thresh + 10
             /\ p[2] \in Range(tr'[1].aud.high)
             /\ p[2] \notin Range(tr'[1].aud.low)
             /\ p[2] \notin MatchedRows(tr'[1].aud)
             /\ heap'[p[1]].track_id = count + Cardinality({q \in tr'[1].aud.born : q[1] <= p[1]})
             /\ heap'[p[1]].score = tr'[1].aud.scores[p[2]]]_vars

\* the latest update() has activated a track for a row with score det_thresh
\* and has left a high-confidence row below det_thresh, and a low-confidence
\* row, without a track
C13_Witness ==
    /\ \E p \in tr[1].aud.born : tr[1].aud.scores[p[2]] = det_thresh
    /\ \E i \in Range(tr[1].aud.high) \cup Range(tr[1].aud.low) :
          /\ i \notin MatchedRows(tr[1].aud)
          /\ i \notin {p[2] : p \in tr[1].aud.born}

\* C14: every row with score > track_thresh is in the high-confidence set and
\* every row with 0.1 < score <= track_thresh, a score equal to track_thresh
\* included, is in the low-confidence set.
C14_ScoresPartition ==
    \A i \in 1..Len(tr[1].aud.scores) :
        /\ tr[1].aud.scores[i] > track_thresh => i \in Range(tr[1].aud.high)
        /\ (tr[1].aud.scores[i] > 10 /\ tr[1].aud.scores[i] <= track_thresh)
              => i \in Range(tr[1].aud.low)

\* C15: only pool tracks unmatched by the first association and in state
\* Tracked take part in the second association, a Lost track is never matched
\* to a low-confidence detection, and every such track the second association
\* leaves unmatched is Lost and in the lost list after update().
C15_SecondAssociationOnTracked ==
    [][/\ \A o \in Range(tr'[1].aud.r_tracked) :
             /\ heap[o].state = "Tracked"
             /\ o \notin {p[1] : p \in tr'[1].aud.first}
       /\ \A p \in tr'[1].aud.second :
             /\ p[1] \in Range(tr'[1].aud.r_tracked)
             /\ heap[p[1]].state # "Lost"
             /\ p[2] \in Range(tr'[1].aud.low)
       /\ \A o \in Range(tr'[1].aud.r_tracked) \ {p[1] : p \in tr'[1].aud.second} :
             /\ heap'[o].state = "Lost"
             /\ o \in Range(tr'[1].lost_stracks)]_vars

C17_TrackletLenSinceActivation ==
    [][/\ \A p \in tr'[1].aud.born : heap'[p[1]].tracklet_len = 0
       /\ \A o \in MatchedNow(tr'[1].aud) :
             IF o \in Range(tr'[1].refind)
             THEN heap'[o].tracklet_len = 0
             ELSE heap'[o].tracklet_len = heap[o].tracklet_len + 1
       /\ \A o \in Objs(1) \ MatchedNow(tr'[1].aud) :
             heap'[o].tracklet_len = heap[o].tracklet_len]_vars

\* the step is an update() of tracker 1 whose input has no row
EmptyUpdate == last'.op = "update" /\ last'.k = 1 /\ tr'[1].aud.scores = <<>>

\* C22: an update() with no detections still runs the whole lifecycle:
\* frame_id advances, every confirmed Tracked track becomes Lost, every
\* unconfirmed track becomes Removed, lost tracks whose age exceeds
\* max_time_lost are marked Removed, no track is created and the returned
\* list is empty.
C22_EmptyFrameRunsLifecycle ==
    [][EmptyUpdate =>
          /\ tr'[1].frame_id = tr[1].frame_id + 1
          /\ \A o \in Objs(1) :
                /\ (heap[o].state = "Tracked" /\ heap[o].is_activated) => heap'[o].state = "Lost"
                /\ ~heap[o].is_activated => heap'[o].state = "Removed"
                /\ (heap[o].state = "Lost" /\ tr'[1].frame_id - end_frame(heap[o]) > max_time_lost)
                      => heap'[o].state = "Removed"
          /\ Len(heap') = Len(heap)
          /\ tr'[1].ret = <<>>]_vars

\* C23: when update() fails on a structural input error (a detection matrix
\* with fewer than 5 columns) the error is surfaced to the caller and the
\* tracker state after the failed call (frame_id, tracked, lost, removed, id
\* counter) equals the state before the call.
C23_FailedUpdateChangesNothing ==
    [][\A k \in Trackers :
          (last'.op = "update_raised" /\ last'.k = k) =>
              /\ tr'[k].frame_id = tr[k].frame_id
              /\ tr'[k].tracked_stracks = tr[k].tracked_stracks
              /\ tr'[k].lost_stracks = tr[k].lost_stracks
              /\ tr'[k].removed_stracks = tr[k].removed_stracks
              /\ count' = count
              /\ heap' = heap]_vars

\* C24: when the Kalman correction of one matched track fails numerically,
\* that track keeps all of its previous fields (frame_id, tracklet_len, mean,
\* state, is_activated, score; the mean is the predicted one) and update()
\* still completes for the remaining tracks instead of aborting.
C24_FailedCorrectionSkipsTrack ==
    [][last'.op = "update_raised_kalman" =>
          /\ heap'[last'.track].frame_id = heap[last'.track].frame_id
          /\ heap'[last'.track].tracklet_len = heap[last'.track].tracklet_len
          /\ heap'[last'.track].mean = STrack_predict(heap[last'.track]).mean
          /\ heap'[last'.track].state = heap[last'.track].state
          /\ heap'[last'.track].is_activated = heap[last'.track].is_activated
          /\ heap'[last'.track].score = heap[last'.track].score
          /\ \A o \in last'.pending : heap'[o].frame_id = tr'[1].frame_id]_vars

\* what the caller sees of the list the latest update() of tracker k returned
ReturnedFields(k) ==
    [i \in 1..Len(tr[k].ret) |->
        [track_id |-> heap[tr[k].ret[i]].track_id,
         state |-> heap[tr[k].ret[i]].state,
         is_activated |-> heap[tr[k].ret[i]].is_activated,
         start_frame |-> heap[tr[k].ret[i]].start_frame,
         frame_id |-> heap[tr[k].ret[i]].frame_id,
         tracklet_len |-> heap[tr[k].ret[i]].tracklet_len,
         score |-> heap[tr[k].ret[i]].score]]

\* C26: update() is deterministic: two trackers in identical state that
\* receive the same sequence of update() inputs return, at every frame,
\* identical lists of (track_id, state, is_activated, start_frame, frame_id,
\* tracklet_len, score).
C26_SameInputsSameOutputs ==
    (tr[2].constructed /\ tr[1].frame_id = tr[2].frame_id) =>
        ReturnedFields(1) = ReturnedFields(2)

\* the step is an update() of tracker 1 that returns
UpdateStep == last'.op = "update" /\ last'.k = 1

\* C33: within one update() every track is matched to at most one detection
\* and every detection to at most one track, over the first, the second and
\* the unconfirmed association together; no track matched in the first
\* association is offered to the second; so no tracklet_len grows by more
\* than 1 in a frame.
C33_OneMatchPerTrackAndDetection ==
    [][UpdateStep =>
          LET a == tr'[1].aud
              all == a.first \cup a.second \cup a.unconf
          IN /\ \A p, q \in all :
                    p # q => (p[1] # q[1] /\ p[2] # q[2])
             /\ Cardinality(all) =
                    Cardinality(a.first) + Cardinality(a.second) + Cardinality(a.unconf)
             /\ \A p \in a.first : p[1] \notin Range(a.r_tracked)
             /\ \A o \in DOMAIN heap :
                    heap'[o].tracklet_len <= heap[o].tracklet_len + 1]_vars

\* the latest update() matched one track in the first association and
\* another in the second, and both have been matched in earlier frames too
C33_Witness ==
    /\ last.op = "update"
    /\ \E p \in tr[1].aud.first, q \in tr[1].aud.second :
           /\ p[1] # q[1]
           /\ heap[p[1]].tracklet_len > 1
           /\ heap[q[1]].tracklet_len > 1

\* C34: once a track is activated (it has a track_id), no later update()
\* changes its track_id or its start_frame, also not the update() that
\* re-activates it after it was lost.
C34_IdAndStartFrameFixed ==
    [][\A o \in DOMAIN heap :
          /\ heap'[o].track_id = heap[o].track_id
          /\ heap'[o].start_frame = heap[o].start_frame]_vars

\* the latest update() has re-activated a track that was lost: it is Tracked
\* again, in the tracked list, and was born at least two frames earlier
C34_Witness ==
    /\ last.op = "update"
    /\ \E o \in Range(tr[1].refind) :
           /\ o \in Tracked(1)
           /\ heap[o].state = "Tracked"
           /\ heap[o].frame_id = tr[1].frame_id
           /\ heap[o].start_frame + 2 <= tr[1].frame_id

\* C35: after every update() every track of the tracked list has state
\* Tracked and the frame_id of the tracker: the update() has matched it to a
\* detection or has activated it; no track stays in tracked over a frame
\* without a match.
C35_TrackedSeenThisFrame ==
    \A o \in Tracked(1) :
        /\ heap[o].state = "Tracked"
        /\ heap[o].frame_id = tr[1].frame_id
        /\ o \in MatchedNow(tr[1].aud) \cup {p[1] : p \in tr[1].aud.born}

\* the tracked list holds a track the latest update() has matched, while a
\* track that was Tracked and went unmatched in it has left for lost
C35_Witness ==
    /\ \E o \in Tracked(1) : o \in MatchedNow(tr[1].aud)
    /\ \E o \in Lost(1) :
           /\ o \in Range(tr[1].aud.r_tracked)
           /\ heap[o].state = "Lost"
           /\ heap[o].frame_id = tr[1].frame_id - 1

\* C36: a confirmed track (is_activated) becomes Removed only from state
\* Lost, and only in an update() with tracker.frame_id - t.frame_id >
\* max_time_lost: not in the frame in which it first fails to match (it is
\* Tracked before that frame) and not earlier than max_time_lost + 1 frames
\* after its last match.
C36_RemovedOnlyWhenExpired ==
    [][\A o \in Objs(1) :
          (heap[o].is_activated /\ heap[o].state # "Removed" /\ heap'[o].state = "Removed") =>
              /\ heap[o].state = "Lost"
              /\ last'.op = "update"
              /\ heap'[o].frame_id = heap[o].frame_id
              /\ tr'[1].frame_id - heap[o].frame_id > max_time_lost
              /\ tr'[1].frame_id >= heap[o].frame_id + max_time_lost + 1]_vars

\* a confirmed track that the latest update() has removed, max_time_lost + 1
\* frames after its last match
C36_Witness ==
    /\ last.op = "update"
    /\ \E o \in Objs(1) :
           /\ heap[o].is_activated
           /\ heap[o].state = "Removed"
           /\ heap[o].tracklet_len > 0
           /\ tr[1].frame_id - heap[o].frame_id = max_time_lost + 1

\* C37: after every update() every track this tracker has given a track_id
\* is in at least one of tracked, lost and removed; a track dropped by
\* remove_duplicate_stracks is recorded in removed.
C37_NoTrackVanishes ==
    \A o \in Objs(1) : o \in Tracked(1) \cup Lost(1) \cup Removed(1)

\* the fields of a track but its state and its Kalman estimate
KeptFields(t) ==
    <<t.track_id, t.is_activated, t.score, t.frame_id, t.start_frame, t.tracklet_len>>

\* C39: an update() that does not match a track changes of it at most the
\* Kalman mean and covariance and, through mark_lost or mark_removed, the
\* state: track_id, is_activated, score, frame_id, start_frame and
\* tracklet_len stay; and the state of a Lost track that is not matched and
\* does not expire stays Lost.
C39_UnmatchedLostKeepsFields ==
    [][UpdateStep =>
          \A o \in Objs(1) \ MatchedNow(tr'[1].aud) :
              /\ KeptFields(heap'[o]) = KeptFields(heap[o])
              /\ heap'[o].state # heap[o].state => heap'[o].state \in {"Lost", "Removed"}
              /\ (heap[o].state = "Lost" /\ ~expired(heap, o, tr'[1].frame_id)) =>
                     heap'[o].state = "Lost"]_vars

\* the latest update() had detections and matched a track, and left a track
\* of the lost list, lost in an earlier frame, unmatched and not expired
C39_Witness ==
    /\ last.op = "update"
    /\ MatchedNow(tr[1].aud) # {}
    /\ \E o \in Lost(1) \ MatchedNow(tr[1].aud) :
           /\ heap[o].state = "Lost"
           /\ heap[o].frame_id + 2 <= tr[1].frame_id
           /\ ~expired(heap, o, tr[1].frame_id)

----------------------------------------------------------------------------
(* The list functions, called directly (SpecFn) *)

DedupDone == fn.f = "remove_duplicate_stracks" /\ fn.done

\* the tracks i of the first list and j of the second are duplicates
FnDuplicates(i, j) ==
    CostScale - box_iou(STrack_tlbr(fn.h[fn.a[i]]), STrack_tlbr(fn.h[fn.b[j]])) < 1500

FnTimeA(i) == TimeOf(fn.h, fn.a[i])
FnTimeB(j) == TimeOf(fn.h, fn.b[j])

\* C18 as stated: of every duplicate pair with different ages the younger
\* track is dropped from its list and the older one is kept.
C18_YoungerDroppedOlderKept ==
    DedupDone =>
        \A i \in 1..Len(fn.a), j \in 1..Len(fn.b) :
            (FnDuplicates(i, j) /\ FnTimeA(i) # FnTimeB(j)) =>
                IF FnTimeA(i) > FnTimeB(j)
                THEN fn.b[j] \notin Range(fn.out[2]) /\ fn.a[i] \in Range(fn.out[1])
                ELSE fn.a[i] \notin Range(fn.out[1]) /\ fn.b[j] \in Range(fn.out[2])

\* C18 (amended): of every duplicate pair with different ages the younger
\* track is dropped from its list; the older one is kept unless another
\* duplicate pair drops it: a track of tracked is kept exactly when it is
\* older than every duplicate of it in lost, a track of lost exactly when no
\* duplicate of it in tracked is older than it.
C18_YoungerDropped ==
    DedupDone =>
        \A i \in 1..Len(fn.a), j \in 1..Len(fn.b) :
            (FnDuplicates(i, j) /\ FnTimeA(i) # FnTimeB(j)) =>
                IF FnTimeA(i) > FnTimeB(j)
                THEN /\ fn.b[j] \notin Range(fn.out[2])
                     /\ fn.a[i] \in Range(fn.out[1]) <=>
                           \A j2 \in 1..Len(fn.b) : FnDuplicates(i, j2) => FnTimeA(i) > FnTimeB(j2)
                ELSE /\ fn.a[i] \notin Range(fn.out[1])
                     /\ fn.b[j] \in Range(fn.out[2]) <=>
                           \A i2 \in 1..Len(fn.a) : FnDuplicates(i2, j) => ~(FnTimeA(i2) > FnTimeB(j))

\* a call in which a track is the older one of one duplicate pair and is kept,
\* and another track is the older one of a pair and is dropped
C18_Witness ==
    /\ DedupDone
    /\ \E i \in 1..Len(fn.a), j \in 1..Len(fn.b) :
          /\ FnDuplicates(i, j) /\ FnTimeA(i) > FnTimeB(j)
          /\ fn.a[i] \in Range(fn.out[1]) /\ fn.b[j] \notin Range(fn.out[2])
    /\ \E i \in 1..Len(fn.a), j \in 1..Len(fn.b) :
          /\ FnDuplicates(i, j) /\ FnTimeA(i) < FnTimeB(j)
          /\ fn.a[i] \notin Range(fn.out[1]) /\ fn.b[j] \notin Range(fn.out[2])

\* C19: of a duplicate pair with equal ages the track of the second list
\* (lost) is dropped and the track of the first list stays in tracked.
C19_TieDropsFromLost ==
    DedupDone =>
        \A i \in 1..Len(fn.a), j \in 1..Len(fn.b) :
            (FnDuplicates(i, j) /\ FnTimeA(i) = FnTimeB(j)) =>
                fn.b[j] \notin Range(fn.out[2]) /\ fn.a[i] \in Range(fn.out[1])

\* the first occurrence of every track_id of the list all, in order
FirstOccurrences(h, all) ==
    pick(all, SetToSortedSeq({i \in 1..Len(all) :
                 \A j \in 1..(i - 1) : h[all[j]].track_id # h[all[i]].track_id}))

\* C20: joint_stracks(A, B) holds, for every track_id occurring in A followed
\* by B, exactly one track, the first occurrence, in the order of the first
\* occurrences.
C20_JointKeepsFirstOccurrence ==
    (fn.f = "joint_stracks" /\ fn.done) => fn.out = FirstOccurrences(fn.h, fn.a \o fn.b)

----------------------------------------------------------------------------
(* The assignment kernel, called directly (SpecAssign) *)

AssignDone == fn.f = "linear_assignment" /\ fn.done

\* the rows and the columns of the matches returned
MatchedA == {fn.out.matches[i][1] : i \in 1..Len(fn.out.matches)}
MatchedB == {fn.out.matches[i][2] : i \in 1..Len(fn.out.matches)}

\* C21: for every cost matrix and threshold t, linear_assignment returns
\* matches that are one-to-one (no row and no column in two matches), every
\* matched pair has cost <= t, and the unmatched rows and columns are disjoint
\* from the matched ones and together with them cover every row and column
\* index exactly once.
C21_AssignmentPartitions ==
    AssignDone =>
        /\ \A i, j \in 1..Len(fn.out.matches) :
               i # j => /\ fn.out.matches[i][1] # fn.out.matches[j][1]
                        /\ fn.out.matches[i][2] # fn.out.matches[j][2]
        /\ \A i \in 1..Len(fn.out.matches) :
               /\ fn.out.matches[i] \in (1..fn.a.n) \X (1..fn.a.m)
               /\ fn.a.c[fn.out.matches[i]] <= fn.b
        /\ MatchedA \cap Range(fn.out.u_a) = {}
        /\ MatchedB \cap Range(fn.out.u_b) = {}
        /\ MatchedA \cup Range(fn.out.u_a) = 1..fn.a.n
        /\ MatchedB \cup Range(fn.out.u_b) = 1..fn.a.m
        /\ Len(fn.out.u_a) = Cardinality(Range(fn.out.u_a))
        /\ Len(fn.out.u_b) = Cardinality(Range(fn.out.u_b))

\* a call on a full matrix that returns one match and leaves a row and a
\* column unmatched because the cost of their pair is above the threshold
C21_Witness ==
    /\ AssignDone
    /\ fn.a.n = MaxAssignDim /\ fn.a.m = MaxAssignDim
    /\ Len(fn.out.matches) = 1
    /\ \E i \in Range(fn.out.u_a), j \in Range(fn.out.u_b) : fn.a.c[<<i, j>>] > fn.b

\* C38: the matching linear_assignment returns is maximal: no row and column
\* that are both reported unmatched have a cost <= thresh between them.
C38_AssignmentMaximal ==
    AssignDone =>
        \A i \in Range(fn.out.u_a), j \in Range(fn.out.u_b) : fn.a.c[<<i, j>>] > fn.b

\* a call that leaves a row and a column unmatched although the row could
\* have been matched, within the threshold, to a column that is matched
C38_Witness ==
    /\ AssignDone
    /\ fn.out.u_b # <<>>
    /\ \E i \in Range(fn.out.u_a), j \in MatchedB : fn.a.c[<<i, j>>] <= fn.b

----------------------------------------------------------------------------
(* The IoU kernel, called directly (SpecIou) *)

ZeroArea(box) == (box[3] - box[1]) * (box[4] - box[2]) = 0

\* C31: the IoU of two boxes that both have zero area (intersection and union
\* are both 0) is 0, and linear_assignment accepts the cost matrix 1 - IoU of
\* any two lists of boxes (it returns, it does not raise).
C31_DegenerateIouIsZero ==
    /\ (fn.f = "ious" /\ fn.done) =>
           \A i \in 1..Len(fn.a), j \in 1..Len(fn.b) :
               (ZeroArea(fn.a[i]) /\ ZeroArea(fn.b[j])) => fn.out.c[<<i, j>>] = 0
    /\ (fn.f = "linear_assignment" /\ fn.done) => fn.raised = "none"

----------------------------------------------------------------------------
(* match_detections_with_tracks, called directly (SpecMatch) *)

MatchDone == fn.f = "match_detections_with_tracks" /\ fn.done

\* the IoU of track i and detection j of the call
MatchIou(i, j) == box_iou(STrack_tlbr(fn.h[i]), fn.a[j])

\* x >= y as the floating-point numbers compare (False if either is NaN)
Geq(x, y) == x # NaN /\ y # NaN /\ x >= y

\* detection j is the detection of maximal IoU of track i, and that IoU is
\* not zero
MaxIouDetection(i, j) ==
    /\ MatchIou(i, j) # 0
    /\ \A k \in 1..Len(fn.a) : Geq(MatchIou(i, j), MatchIou(i, k))

\* C32: match_detections_with_tracks leaves the track_ids entry of every
\* detection whose IoU with every track is zero as it was; an entry that is
\* changed belongs to a detection that is the maximum-IoU detection of some
\* track with non-zero IoU, and holds the track_id of such a track.
C32_IdsOnlyFromBestOverlap ==
    MatchDone =>
        /\ Len(fn.out) = Len(fn.b)
        /\ \A j \in 1..Len(fn.b) :
               (\A i \in 1..Len(fn.h) : MatchIou(i, j) = 0) => fn.out[j] = fn.b[j]
        /\ \A j \in 1..Len(fn.b) :
               fn.out[j] # fn.b[j] =>
                   \E i \in 1..Len(fn.h) :
                       MaxIouDetection(i, j) /\ fn.out[j] = fn.h[i].track_id

----------------------------------------------------------------------------
(* The constructor, called directly (SpecCtor) *)

\* frame_rate and track_buffer are positive and the thresholds are in [0, 1]
ValidConfig(args) ==
    /\ args.frame_rate > 0
    /\ args.track_buffer > 0
    /\ args.track_thresh \in 0..100
    /\ args.match_thresh \in 0..CostScale

\* C25: constructing a BYTETracker with frame_rate <= 0, track_buffer <= 0 or
\* an out-of-range threshold fails at construction, so no tracker with such a
\* configuration (for example a negative max_time_lost) ever runs update().
C25_BadConfigFailsAtConstruction ==
    (fn.f = "BYTETracker" /\ fn.done /\ ~ValidConfig(fn.a)) =>
        /\ fn.out.raised
        /\ fn.out.frame_id = 0

----------------------------------------------------------------------------
(* The box conversions, called directly (SpecBox) *)

\* both conversions have been applied to the box fn.a
RoundTripDone == fn.f \in {"tlwh_to_tlbr", "tlbr_to_tlwh"} /\ fn.done

\* the first conversion rounded nothing: its result is the exact sum
\* (difference) of the coordinates
FirstExact ==
    IF fn.f = "tlwh_to_tlbr"
    THEN fn.out[1] = <<fn.a[1], fn.a[2], fn.a[3] + fn.a[1], fn.a[4] + fn.a[2]>>
    ELSE fn.out[1] = <<fn.a[1], fn.a[2], fn.a[3] - fn.a[1], fn.a[4] - fn.a[2]>>

\* C27 as stated: for every box b, tlbr_to_tlwh(tlwh_to_tlbr(b)) = b and
\* tlwh_to_tlbr(tlbr_to_tlwh(b)) = b.
C27_RoundTripIdentity == RoundTripDone => fn.out[2] = fn.a

\* C27 (amended): for every box b for which the first conversion is exact
\* (the sums x + w, y + h, or the differences x2 - x1, y2 - y1, are
\* floating-point numbers), tlbr_to_tlwh(tlwh_to_tlbr(b)) = b and
\* tlwh_to_tlbr(tlbr_to_tlwh(b)) = b.
C27_RoundTripIdentityWhenExact == (RoundTripDone /\ FirstExact) => fn.out[2] = fn.a

\* a round trip through a different box, back to the box it started from
C27_Witness ==
    /\ RoundTripDone /\ FirstExact
    /\ fn.f = "tlwh_to_tlbr"
    /\ fn.out[1][3] # fn.a[3] /\ fn.out[1][4] # fn.a[4]
    /\ fn.out[2] = fn.a

----------------------------------------------------------------------------
(* Prediction and correction, called directly (SpecKalman) *)

PredictDone == fn.f \in {"STrack.predict", "STrack.multi_predict"} /\ fn.done

\* C28: when a track whose state is not Tracked is predicted (by
\* STrack.predict or STrack.multi_predict) its height velocity is treated as
\* 0: the predicted height is the height before and the stored vh is 0, while
\* cx, cy and a advance by their velocities; for a Tracked track all four
\* components advance by their velocities.
C28_HeightFrozenUnlessTracked ==
    PredictDone =>
        \A o \in Range(fn.a) :
            /\ \A i \in 1..3 : fn.out.h[o].mean[i] = fn.h[o].mean[i] + fn.h[o].mean[i + 4]
            /\ \A i \in 5..7 : fn.out.h[o].mean[i] = fn.h[o].mean[i]
            /\ IF fn.h[o].state # "Tracked"
               THEN fn.out.h[o].mean[4] = fn.h[o].mean[4] /\ fn.out.h[o].mean[8] = 0
               ELSE /\ fn.out.h[o].mean[4] = fn.h[o].mean[4] + fn.h[o].mean[8]
                    /\ fn.out.h[o].mean[8] = fn.h[o].mean[8]

\* a Lost track with a height velocity and a Tracked one with a height
\* velocity have been predicted in one call
C28_Witness ==
    /\ PredictDone
    /\ \E o \in Range(fn.a) : fn.h[o].state = "Lost" /\ fn.h[o].mean[8] # 0
                                /\ fn.out.h[o].mean[8] = 0
    /\ \E o \in Range(fn.a) : fn.h[o].state = "Tracked" /\ fn.h[o].mean[8] # 0
                                /\ fn.out.h[o].mean[4] # fn.h[o].mean[4]

\* C29: STrack.multi_predict on a list of tracks leaves every track with the
\* same mean and covariance as calling STrack.predict on each track
\* separately, for any mix of Tracked and non-Tracked tracks, and does
\* nothing on an empty list.
C29_MultiPredictIsPredictEach ==
    (fn.f = "STrack.multi_predict" /\ fn.done) =>
        /\ \A o \in Range(fn.a) :
               /\ fn.out.h[o] = STrack_predict(fn.h[o])
               /\ fn.out.cov[o] = STrack_predict_cov(fn.h[o], fn.b[o])
        /\ fn.a = <<>> => (fn.out.h = fn.h /\ fn.out.cov = fn.b)

\* multi_predict has been called on a Tracked and a Lost track that both
\* move and whose covariances differ
C29_Witness ==
    /\ fn.f = "STrack.multi_predict" /\ fn.done
    /\ Len(fn.a) = MaxFnList
    /\ fn.h[1].state = "Tracked" /\ fn.h[2].state = "Lost"
    /\ fn.h[1].mean[8] # 0 /\ fn.h[2].mean[8] # 0
    /\ fn.b[1] # fn.b[2]
    /\ fn.out.h[1].mean # fn.h[1].mean

KalmanDone == fn.f = "KalmanFilter" /\ fn.done

\* C30 as stated: for every state mean (including non-zero velocities) and
\* covariance, predict followed by update with the measurement equal to the
\* projection of the predicted mean returns the mean that was given to
\* predict.
C30_PredictUpdateReturnsOldMean ==
    (KalmanDone /\ fn.b.positive_definite) => fn.out[2].mean = fn.a

\* C30 (amended): for every state mean and every covariance whose projection
\* is positive definite, predict followed by update with the measurement
\* equal to the projection of the predicted mean returns the predicted mean;
\* that is the mean given to predict exactly when the velocities of x, y, a
\* and h are all 0.
C30_PredictUpdateReturnsPredictedMean ==
    (KalmanDone /\ fn.b.positive_definite) =>
        /\ ~fn.out[2].raised
        /\ fn.out[2].mean = fn.out[1].mean
        /\ fn.out[2].mean = fn.a <=> \A i \in 5..8 : fn.a[i] = 0

\* a mean with velocities has been predicted and corrected with a gain that
\* is not zero
C30_Witness ==
    /\ KalmanDone /\ fn.b.positive_definite
    /\ \E i \in 5..8 : fn.a[i] # 0
    /\ \E p \in DOMAIN fn.b.kalman_gain : fn.b.kalman_gain[p] # 0
    /\ fn.out[2].mean = fn.out[1].mean /\ fn.out[2].mean # fn.a

====
